---- MODULE Spec2Model ----
(***************************************************************************)
(* Model of the chopnad-game score submission back end:                    *)
(*   - CryptoValidationService (src/app/lib/cryptoValidation.ts): the      *)
(*     challenge / client-nonce validation, the issue of validation keys,  *)
(*     the 3-key validation with its used-sets and their periodic cleanup;  *)
(*   - the update-player-data POST handler (src/app/page.tsx, second half): *)
(*     abuse tiers, key validation, signing, dedup, ledger write.           *)
(*                                                                         *)
(* Strings are modelled by their structure under the two separators the    *)
(* code splits on: a string is a non-empty sequence of ':'-separated       *)
(* segments, a segment is a non-empty sequence of '-'-separated fields and  *)
(* a field is an atom (a text, a decimal number, an HMAC digest, a client   *)
(* nonce).  Template literals are built with Dash and Colon, split(':')    *)
(* and split('-') read the structure back.  HMAC is collision free: two     *)
(* digests are equal iff secret and message are equal.                     *)
(***************************************************************************)
EXTENDS Integers, Sequences, FiniteSets, TLC

\* ------------------------------------------------------------------ bounds
\* number of direct calls of the validation service in SpecKeys and SpecNonce
MaxCalls == 2
\* number of clock advances
MaxTicks == 2
\* number of bursts of untracked traffic (entries of other clients)
MaxBursts == 1
\* number of submissions handled by the endpoint in Spec
MaxRequests == 2

\* ------------------------------------------------------- program constants
\* "2 dakika tolerans" of the temporal and identity keys
KEY_TOLERANCE_MS == 2 * 60 * 1000
\* oldest accepted challenge and its clock-skew tolerance
CHALLENGE_MAX_AGE_MS == 5 * 60 * 1000
CHALLENGE_SKEW_MS == 60 * 1000
\* tolerance of the client request timestamp
REQUEST_TOLERANCE_MS == 5 * 60 * 1000
\* width of the per-player timestamp window
WINDOW_MS == 30 * 1000
\* combined size of the used-sets above which cleanupOldKeys clears them
CLEANUP_THRESHOLD == 10000

\* ------------------------------------------------------------------ strings
Txt(s) == [tag |-> "txt", s |-> s, n |-> 0, d |-> <<>>]
Num(n) == [tag |-> "num", s |-> "", n |-> n, d |-> <<>>]
Hmac(secret, str) == [tag |-> "hmac", s |-> secret, n |-> 0, d |-> str]
Str1(f) == << <<f>> >>
EmptyStr == Str1(Txt(""))

\* `${a}-${b}`
Dash(a, b) == SubSeq(a, 1, Len(a) - 1) \o << a[Len(a)] \o b[1] >> \o Tail(b)
\* `${a}:${b}`
Colon(a, b) == a \o b
\* `${n}` of a number: a negative number prints its sign, which is the separator
FmtNum(n) == IF n >= 0 THEN Str1(Num(n)) ELSE << <<Txt(""), Num(0 - n)>> >>
\* str.split(':')
SplitColon(str) == [i \in 1..Len(str) |-> << str[i] >>]
\* data.split('-') of a string without ':'
SplitDash(data) == [i \in 1..Len(data[1]) |-> Str1(data[1][i])]

NaN == 0 - 1
\* parseInt(str, 10) of a one-field string: leading decimal digits, else NaN
\* ("0x..." reads as 0)
ParseInt(str) ==
    LET f == str[1][1]
    IN  CASE f.tag = "num" -> f.n
          [] f.tag = "txt" /\ f.s \in {"0xA", "0xB"} -> 0
          [] OTHER -> NaN

Abs(x) == IF x < 0 THEN 0 - x ELSE x

\* ------------------------------------------------------------------ secrets
SERVER_TEMPORAL_SECRET == "temporalSecret"
SERVER_PAYLOAD_SECRET == "payloadSecret"
SERVER_IDENTITY_SECRET == "identitySecret"

VARIABLES
    now,                \* Date.now(), milliseconds
    ticks,              \* clock advances so far
    usedTemporalKeys,   \* CryptoValidationService.usedTemporalKeys
    usedPayloadKeys,    \* CryptoValidationService.usedPayloadKeys
    usedIdentityKeys,   \* CryptoValidationService.usedIdentityKeys
    usedNonces,         \* CryptoValidationService.usedNonces
    otherUsed,          \* entries of the four used-sets outside the tracked universe
    bursts,             \* bursts of untracked traffic so far
    calls,              \* direct service calls so far
    lastCall,           \* the most recent service call: inputs and result
    everHigh,           \* client key strings of every triple validated HIGH so far
    everAccepted,       \* client nonces accepted by validateClientRequest so far
    req,                \* the POST invocations: position, body, locals, response
    processedRequests,  \* page.tsx processedRequests (dedupKey -> timestamp, result)
    hourlyLimits,       \* page.tsx hourlyLimits (player:hour -> score, transactions, timestamp)
    scoreTracking,      \* page.tsx scoreTracking (player -> totalScore, requests, firstRequest)
    ledger              \* the updatePlayerData writes executed so far, in order

endpointVars == <<req, processedRequests, hourlyLimits, scoreTracking, ledger>>

VARIABLES
    signUsedNonces,     \* signMessage.ts ServerSigningService.usedNonces
    signing,            \* the signScoreSubmission calls awaiting walletClient.signMessage
    signatures,         \* the SignatureResults returned by signScoreSubmission so far
    verifyLog,          \* the verifySignature calls so far: inputs, time and result
    nextNonceCleanup,   \* when the 10-minute timer of the signing service fires next
    usedSessionTokens,  \* score-api.ts usedSessionTokens
    sessionTokens,      \* the session tokens generated so far
    sessionLog,         \* the validateSessionToken calls so far: inputs, time and result
    nextTokenCleanup,   \* when the 10-minute timer of the session tokens fires next
    pendingBatch,       \* TransactionQueue.pendingBatch
    batchDue,           \* when batchingTimer fires, -1 when it is not set
    queue,              \* TransactionQueue.queue
    pass,               \* the running processQueue call: isProcessing, its now, its
                        \* readyTransactions still to come and the one being submitted
    fetch,              \* the POST of submitPlayerScore that is awaited
    clientLog,          \* submissions and callback invocations so far, in order
    enqueued,           \* enqueue calls so far
    processingTimer,    \* whether the processing interval of the queue is set
    destroyed,          \* whether destroy() has returned
    \* ScoreSubmissionManager (score-api.ts)
    pendingScore,       \* ScoreSubmissionManager.pendingScore
    pendingTransactions, \* ScoreSubmissionManager.pendingTransactions
    submitTimeout,      \* when submitTimeout fires, -1 when it is null or has fired
    isSubmitting,       \* ScoreSubmissionManager.isSubmitting
    awaitedSubmissions, \* submitPlayerScore calls of the manager that have not returned
    managerLog,         \* amounts added, submitPlayerScore calls and results, in order
    \* ChoppingGame (part_002)
    order,              \* orderRef.current: the items still required and the deadline
    orderTimers,        \* the times at which the scheduled newOrder calls are due
    ordersStarted,      \* newOrder calls so far
    ordersDone,         \* ordersDoneRef.current
    level,              \* levelRef.current
    lastChop,           \* lastChopRef.current
    chopping,           \* choppingRef.current
    chopTimer,          \* the time at which the timeout that resets chopping is due
    gamePlayerAddress,  \* the playerAddress prop the game's handlers were created with
    mounted,            \* the game component is mounted: its listeners are registered
    running,            \* runningRef.current
    powerUntil,         \* powerUntilRef.current
    gameLog             \* delivery bonuses awarded and transactions enqueued, in order

signingVars == <<signUsedNonces, signing, signatures, verifyLog, nextNonceCleanup>>
sessionVars == <<usedSessionTokens, sessionTokens, sessionLog, nextTokenCleanup>>
lifeVars == <<processingTimer, destroyed>>
clientVars == <<pendingBatch, batchDue, queue, pass, fetch, clientLog, enqueued, lifeVars>>
managerVars == <<pendingScore, pendingTransactions, submitTimeout, isSubmitting,
                 awaitedSubmissions, managerLog>>
gameVars == <<order, orderTimers, ordersStarted, ordersDone, level, lastChop, chopping,
              chopTimer, gamePlayerAddress, mounted, running, powerUntil, gameLog>>
extraVars == <<managerVars, gameVars>>
sideVars == <<signingVars, sessionVars, clientVars, extraVars>>

vars == <<now, ticks, usedTemporalKeys, usedPayloadKeys, usedIdentityKeys,
          usedNonces, otherUsed, bursts, calls, lastCall, everHigh, everAccepted,
          req, processedRequests, hourlyLimits, scoreTracking, ledger, sideVars>>

\* ------------------------------------------------------------ small helpers
Ok == [valid |-> TRUE, error |-> "none"]
Err(msg) == [valid |-> FALSE, error |-> msg]
AddrStr(a) == Str1(Txt(a))
\* playerAddress.startsWith('0x')
StartsWith0x(a) == a \in {"0xA", "0xB"}
\* clientNonce.length === 32
HasLength32(nonce) ==
    Len(nonce) = 1 /\ Len(nonce[1]) = 1
    /\ (nonce[1][1].tag = "nonce" \/ nonce[1][1] = Txt("zzzzzzzzzzzzzzzzzzzzzzzzzzzzzzzz"))
\* /^[a-f0-9]{32}$/i
IsHex32(nonce) == Len(nonce) = 1 /\ Len(nonce[1]) = 1 /\ nonce[1][1].tag = "nonce"

\* HMAC(SERVER_TEMPORAL_SECRET, `${playerAddress}-${timestampHex}`).substring(0, 8)
ChallengeSignature(playerAddress, sec) ==
    Hmac(SERVER_TEMPORAL_SECRET, Dash(AddrStr(playerAddress), Str1(Num(sec))))

\* challenge + suffix, as the client concatenates them
MakeNonce(sec, signature, suffix) ==
    Str1([tag |-> "nonce", s |-> "", n |-> suffix, d |-> << <<Num(sec), signature>> >>])

\* ------------------------------------------------- CryptoValidationService
generateNonceChallenge(playerAddress, t) ==
    LET sec == t \div 1000
    IN  [success |-> TRUE,
         sec |-> sec,
         signature |-> ChallengeSignature(playerAddress, sec),
         expiresAt |-> t + 5 * 60 * 1000]

\* mutant: no tolerance for a challenge from the future
validateNonceWithChallenge_NoSkew(clientNonce, playerAddress, t) ==
    IF ~IsHex32(clientNonce) THEN Err("Invalid nonce format")
    ELSE
      LET f == clientNonce[1][1]
          timestampSec == f.d[1][1].n
          receivedSignature == f.d[1][2]
          expectedSignature == ChallengeSignature(playerAddress, timestampSec)
          challengeAge == t - timestampSec * 1000
          suffixNum == f.n
      IN  IF receivedSignature # expectedSignature
            THEN Err("Invalid challenge signature")
          ELSE IF challengeAge > CHALLENGE_MAX_AGE_MS
            THEN Err("Challenge expired")
          ELSE IF challengeAge < 0
            THEN Err("Challenge timestamp invalid")
          ELSE IF suffixNum = 0 \/ suffixNum % 1000 = 0
            THEN Err("Predictable nonce suffix")
          ELSE Ok

validateNonceWithChallenge(clientNonce, playerAddress, t) ==
    IF ~IsHex32(clientNonce) THEN Err("Invalid nonce format")
    ELSE
      LET f == clientNonce[1][1]
          timestampSec == f.d[1][1].n
          receivedSignature == f.d[1][2]
          expectedSignature == ChallengeSignature(playerAddress, timestampSec)
          challengeAge == t - timestampSec * 1000
          suffixNum == f.n
      IN  IF receivedSignature # expectedSignature
            THEN Err("Invalid challenge signature")
          ELSE IF challengeAge > CHALLENGE_MAX_AGE_MS
            THEN Err("Challenge expired")
          ELSE IF challengeAge < 0 - CHALLENGE_SKEW_MS
            THEN Err("Challenge timestamp invalid")
          ELSE IF suffixNum = 0 \/ suffixNum % 1000 = 0
            THEN Err("Predictable nonce suffix")
          ELSE Ok

\* rnd: the three crypto.randomBytes draws, as texts
generateSecureValidationKeys(clientRequest, rnd) ==
    LET addr == AddrStr(clientRequest.playerAddress)
        ts == FmtNum(clientRequest.timestamp)
        temporalData == Dash(Dash(ts, Str1(Txt(rnd.temporalNonce))), clientRequest.clientNonce)
        payloadData == Dash(Dash(Dash(Dash(addr, FmtNum(clientRequest.scoreAmount)),
                                      FmtNum(clientRequest.transactionAmount)),
                                 Str1(Txt(rnd.payloadSalt))), ts)
        identityData == Dash(Dash(Dash(addr, ts), Str1(Txt(rnd.sessionId))),
                             clientRequest.clientNonce)
    IN  [temporalKey |-> Colon(temporalData, Str1(Hmac(SERVER_TEMPORAL_SECRET, temporalData))),
         payloadKey |-> Colon(payloadData, Str1(Hmac(SERVER_PAYLOAD_SECRET, payloadData))),
         identityKey |-> Colon(identityData, Str1(Hmac(SERVER_IDENTITY_SECRET, identityData)))]

\* client side helper: the data parts only, the server adds the signatures
generateClientValidationKeys(playerAddress, scoreAmount, transactionAmount, timestamp, rnd) ==
    LET addr == AddrStr(playerAddress)
    IN  [temporalKey |-> Dash(FmtNum(timestamp), Str1(Txt(rnd.temporalNonce))),
         payloadKey |-> Dash(Dash(Dash(addr, FmtNum(scoreAmount)), FmtNum(transactionAmount)),
                             Str1(Txt(rnd.payloadSalt))),
         identityKey |-> Dash(Dash(addr, FmtNum(timestamp)), Str1(Txt(rnd.sessionId)))]

signClientKeys(clientKeys) ==
    [temporalKey |-> Colon(clientKeys.temporalKey,
                           Str1(Hmac(SERVER_TEMPORAL_SECRET, clientKeys.temporalKey))),
     payloadKey |-> Colon(clientKeys.payloadKey,
                          Str1(Hmac(SERVER_PAYLOAD_SECRET, clientKeys.payloadKey))),
     identityKey |-> Colon(clientKeys.identityKey,
                           Str1(Hmac(SERVER_IDENTITY_SECRET, clientKeys.identityKey)))]

\* mutant: the boundary itself is rejected
TemporalFresh_Strict(requestTimestamp, keyTimestamp) ==
    ~(Abs(requestTimestamp - keyTimestamp) >= KEY_TOLERANCE_MS)

TemporalFresh(requestTimestamp, keyTimestamp) ==
    ~(Abs(requestTimestamp - keyTimestamp) > KEY_TOLERANCE_MS)

validateTemporalKey(svc, temporalKey, requestTimestamp) ==
    LET parts == SplitColon(temporalKey)
        data == parts[1]
        signature == IF Len(parts) >= 2 THEN parts[2] ELSE EmptyStr
    IN  IF data = EmptyStr \/ signature = EmptyStr
          THEN Err("Invalid temporal key format")
        ELSE IF temporalKey \in svc.usedTemporalKeys
          THEN Err("Temporal key already used")
        ELSE IF signature # Str1(Hmac(SERVER_TEMPORAL_SECRET, data))
          THEN Err("Invalid temporal key signature")
        ELSE
          LET keyTimestamp == ParseInt(SplitDash(data)[1])
          IN  IF keyTimestamp = NaN
                THEN Err("Invalid timestamp in temporal key")
              ELSE IF ~TemporalFresh(requestTimestamp, keyTimestamp)
                THEN Err("Temporal key expired or invalid timestamp")
              ELSE Ok

\* mutant: the score field of the payload key is not compared
PayloadFieldsMatch_NoScore(parts, playerAddress, scoreAmount, transactionAmount) ==
    IF parts[1] # AddrStr(playerAddress)
      THEN Err("Player address mismatch in payload key")
    ELSE IF ParseInt(parts[3]) # transactionAmount
      THEN Err("Transaction amount mismatch in payload key")
    ELSE Ok

PayloadFieldsMatch(parts, playerAddress, scoreAmount, transactionAmount) ==
    IF parts[1] # AddrStr(playerAddress)
      THEN Err("Player address mismatch in payload key")
    ELSE IF ParseInt(parts[2]) # scoreAmount
      THEN Err("Score amount mismatch in payload key")
    ELSE IF ParseInt(parts[3]) # transactionAmount
      THEN Err("Transaction amount mismatch in payload key")
    ELSE Ok

validatePayloadKey(svc, payloadKey, playerAddress, scoreAmount, transactionAmount) ==
    LET parts0 == SplitColon(payloadKey)
        data == parts0[1]
        signature == IF Len(parts0) >= 2 THEN parts0[2] ELSE EmptyStr
    IN  IF data = EmptyStr \/ signature = EmptyStr
          THEN Err("Invalid payload key format")
        ELSE IF payloadKey \in svc.usedPayloadKeys
          THEN Err("Payload key already used")
        ELSE IF signature # Str1(Hmac(SERVER_PAYLOAD_SECRET, data))
          THEN Err("Invalid payload key signature")
        ELSE
          LET parts == SplitDash(data)
          IN  IF Len(parts) # 4
                THEN Err("Invalid payload key data format")
              ELSE PayloadFieldsMatch(parts, playerAddress, scoreAmount, transactionAmount)

\* mutant: the identity key must carry the request timestamp itself
IdentityFresh_Exact(requestTimestamp, identityTimestamp) ==
    requestTimestamp = identityTimestamp

\* "2 dakika tolerans" of the identity key
IdentityFresh(requestTimestamp, identityTimestamp) ==
    ~(Abs(requestTimestamp - identityTimestamp) > KEY_TOLERANCE_MS)

validateIdentityKey(svc, identityKey, playerAddress, requestTimestamp) ==
    LET parts0 == SplitColon(identityKey)
        data == parts0[1]
        signature == IF Len(parts0) >= 2 THEN parts0[2] ELSE EmptyStr
    IN  IF data = EmptyStr \/ signature = EmptyStr
          THEN Err("Invalid identity key format")
        ELSE IF identityKey \in svc.usedIdentityKeys
          THEN Err("Identity key already used")
        ELSE IF signature # Str1(Hmac(SERVER_IDENTITY_SECRET, data))
          THEN Err("Invalid identity key signature")
        ELSE
          LET parts == SplitDash(data)
          IN  IF Len(parts) # 3
                THEN Err("Invalid identity key data format")
              ELSE IF parts[1] # AddrStr(playerAddress)
                THEN Err("Player address mismatch in identity key")
              ELSE
                LET identityTimestamp == ParseInt(parts[2])
                IN  IF identityTimestamp = NaN
                      THEN Err("Invalid timestamp in identity key")
                    ELSE IF ~IdentityFresh(requestTimestamp, identityTimestamp)
                      THEN Err("Identity key timestamp too old")
                    ELSE Ok

\* mutant: the identity key is not recorded
markKeysAsUsed_Partial(svc, keys) ==
    [svc EXCEPT !.usedTemporalKeys = @ \cup {keys.temporalKey},
                !.usedPayloadKeys = @ \cup {keys.payloadKey}]

\* mutant: no key is recorded
markKeysAsUsed_None(svc, keys) == svc

markKeysAsUsed(svc, keys) ==
    [svc EXCEPT !.usedTemporalKeys = @ \cup {keys.temporalKey},
                !.usedPayloadKeys = @ \cup {keys.payloadKey},
                !.usedIdentityKeys = @ \cup {keys.identityKey}]

SecurityLevel_TwoIsHigh(validKeyCount) ==
    CASE validKeyCount >= 2 -> "HIGH"
      [] validKeyCount = 1 -> "LOW"
      [] OTHER -> "FAILED"

SecurityLevel(validKeyCount) ==
    CASE validKeyCount = 3 -> "HIGH"
      [] validKeyCount = 2 -> "MEDIUM"
      [] validKeyCount = 1 -> "LOW"
      [] OTHER -> "FAILED"

\* request: [playerAddress, scoreAmount, transactionAmount, timestamp]
validateKeys(svc, clientValidationKeys, request) ==
    LET serverSignedKeys == signClientKeys(clientValidationKeys)
        temporalValid == validateTemporalKey(svc, serverSignedKeys.temporalKey,
                                             request.timestamp)
        payloadValid == validatePayloadKey(svc, serverSignedKeys.payloadKey,
                                           request.playerAddress, request.scoreAmount,
                                           request.transactionAmount)
        identityValid == validateIdentityKey(svc, serverSignedKeys.identityKey,
                                             request.playerAddress, request.timestamp)
        checks == <<temporalValid, payloadValid, identityValid>>
        validKeyCount == Cardinality({i \in 1..3 : checks[i].valid})
        allValid == validKeyCount = 3
    IN  [valid |-> allValid,
         errors |-> <<temporalValid.error, payloadValid.error, identityValid.error>>,
         securityLevel |-> SecurityLevel(validKeyCount),
         signed |-> serverSignedKeys,
         svc |-> IF allValid THEN markKeysAsUsed(svc, serverSignedKeys) ELSE svc]

\* mutant: the used nonces survive the cleanup
cleanupOldKeys_KeepNonces(svc) ==
    LET oldSize == Cardinality(svc.usedTemporalKeys) + Cardinality(svc.usedPayloadKeys)
                   + Cardinality(svc.usedIdentityKeys) + Cardinality(svc.usedNonces)
                   + svc.otherUsed
    IN  IF oldSize > CLEANUP_THRESHOLD
          THEN [usedTemporalKeys |-> {}, usedPayloadKeys |-> {}, usedIdentityKeys |-> {},
                usedNonces |-> svc.usedNonces, otherUsed |-> 0]
          ELSE svc

cleanupOldKeys(svc) ==
    LET oldSize == Cardinality(svc.usedTemporalKeys) + Cardinality(svc.usedPayloadKeys)
                   + Cardinality(svc.usedIdentityKeys) + Cardinality(svc.usedNonces)
                   + svc.otherUsed
    IN  IF oldSize > CLEANUP_THRESHOLD
          THEN [usedTemporalKeys |-> {}, usedPayloadKeys |-> {}, usedIdentityKeys |-> {},
                usedNonces |-> {}, otherUsed |-> 0]
          ELSE svc

\* mutant: the used-set is consulted after the challenge checks
ClientRequestErrors_UniquenessLast(svc, clientRequest, t) ==
    LET addrErr == IF clientRequest.playerAddress = "" \/ ~StartsWith0x(clientRequest.playerAddress)
                     THEN <<"Invalid player address">> ELSE <<>>
        scoreErr == IF clientRequest.scoreAmount < 0 \/ clientRequest.scoreAmount > 1000000
                      THEN <<"Invalid score amount">> ELSE <<>>
        txErr == IF clientRequest.transactionAmount < 0 \/ clientRequest.transactionAmount > 1000
                   THEN <<"Invalid transaction amount">> ELSE <<>>
        timeErr == IF Abs(t - clientRequest.timestamp) > REQUEST_TOLERANCE_MS
                     THEN <<"Request timestamp too old or invalid">> ELSE <<>>
        nonceValidation == validateNonceWithChallenge(clientRequest.clientNonce,
                                                      clientRequest.playerAddress, t)
        nonceErr == IF clientRequest.clientNonce = EmptyStr \/ ~HasLength32(clientRequest.clientNonce)
                      THEN <<"Invalid client nonce format">>
                    ELSE IF ~nonceValidation.valid
                      THEN <<"Nonce challenge validation failed: " \o nonceValidation.error>>
                    ELSE IF clientRequest.clientNonce \in svc.usedNonces
                      THEN <<"Nonce has already been used">>
                    ELSE <<>>
        requestKey == Dash(AddrStr(clientRequest.playerAddress), clientRequest.clientNonce)
        dupErr == IF requestKey \in svc.usedTemporalKeys
                    THEN <<"Duplicate request nonce detected">> ELSE <<>>
        windowKey == Dash(AddrStr(clientRequest.playerAddress),
                          FmtNum(clientRequest.timestamp \div WINDOW_MS))
        windowErr == IF windowKey \in svc.usedPayloadKeys
                       THEN <<"Too many requests in timestamp window">> ELSE <<>>
    IN  addrErr \o scoreErr \o txErr \o timeErr \o nonceErr \o dupErr \o windowErr

\* clientRequest: [playerAddress, scoreAmount, transactionAmount, timestamp, clientNonce]
ClientRequestErrors(svc, clientRequest, t) ==
    LET addrErr == IF clientRequest.playerAddress = "" \/ ~StartsWith0x(clientRequest.playerAddress)
                     THEN <<"Invalid player address">> ELSE <<>>
        scoreErr == IF clientRequest.scoreAmount < 0 \/ clientRequest.scoreAmount > 1000000
                      THEN <<"Invalid score amount">> ELSE <<>>
        txErr == IF clientRequest.transactionAmount < 0 \/ clientRequest.transactionAmount > 1000
                   THEN <<"Invalid transaction amount">> ELSE <<>>
        timeErr == IF Abs(t - clientRequest.timestamp) > REQUEST_TOLERANCE_MS
                     THEN <<"Request timestamp too old or invalid">> ELSE <<>>
        nonceValidation == validateNonceWithChallenge(clientRequest.clientNonce,
                                                      clientRequest.playerAddress, t)
        nonceErr == IF clientRequest.clientNonce = EmptyStr \/ ~HasLength32(clientRequest.clientNonce)
                      THEN <<"Invalid client nonce format">>
                    ELSE IF clientRequest.clientNonce \in svc.usedNonces
                      THEN <<"Nonce has already been used">>
                    ELSE IF ~nonceValidation.valid
                      THEN <<"Nonce challenge validation failed: " \o nonceValidation.error>>
                    ELSE <<>>
        requestKey == Dash(AddrStr(clientRequest.playerAddress), clientRequest.clientNonce)
        dupErr == IF requestKey \in svc.usedTemporalKeys
                    THEN <<"Duplicate request nonce detected">> ELSE <<>>
        windowKey == Dash(AddrStr(clientRequest.playerAddress),
                          FmtNum(clientRequest.timestamp \div WINDOW_MS))
        windowErr == IF windowKey \in svc.usedPayloadKeys
                       THEN <<"Too many requests in timestamp window">> ELSE <<>>
    IN  addrErr \o scoreErr \o txErr \o timeErr \o nonceErr \o dupErr \o windowErr

\* mutant: the window key is not recorded
MarkRequestAsUsed_NoWindow(svc, clientRequest) ==
    LET requestKey == Dash(AddrStr(clientRequest.playerAddress), clientRequest.clientNonce)
    IN  [svc EXCEPT !.usedTemporalKeys = @ \cup {requestKey},
                    !.usedNonces = @ \cup {clientRequest.clientNonce}]

MarkRequestAsUsed(svc, clientRequest) ==
    LET requestKey == Dash(AddrStr(clientRequest.playerAddress), clientRequest.clientNonce)
        windowKey == Dash(AddrStr(clientRequest.playerAddress),
                          FmtNum(clientRequest.timestamp \div WINDOW_MS))
    IN  [svc EXCEPT !.usedTemporalKeys = @ \cup {requestKey},
                    !.usedPayloadKeys = @ \cup {windowKey},
                    !.usedNonces = @ \cup {clientRequest.clientNonce}]

NoKeys == [temporalKey |-> EmptyStr, payloadKey |-> EmptyStr, identityKey |-> EmptyStr]

validateClientRequest(svc, clientRequest, t, rnd) ==
    LET errors == ClientRequestErrors(svc, clientRequest, t)
    IN  IF Len(errors) = 0
          THEN [valid |-> TRUE, errors |-> <<>>, securityLevel |-> "HIGH",
                validationKeys |-> generateSecureValidationKeys(clientRequest, rnd),
                svc |-> MarkRequestAsUsed(svc, clientRequest)]
          ELSE [valid |-> FALSE, errors |-> errors, securityLevel |-> "FAILED",
                validationKeys |-> NoKeys, svc |-> svc]

\* ------------------------------------------------------------ input universe
Addresses == {"0xA", "0xB"}
\* (identity, score, txCount) of a submission
Payloads == { [playerAddress |-> "0xA", scoreAmount |-> 100, transactionAmount |-> 2],
              [playerAddress |-> "0xB", scoreAmount |-> 100, transactionAmount |-> 2],
              [playerAddress |-> "0xA", scoreAmount |-> 101, transactionAmount |-> 2],
              [playerAddress |-> "0xA", scoreAmount |-> 100, transactionAmount |-> 3] }
\* client clock readings embedded in keys and requests
KeyTimes == {0, 1000}
\* clock advances, milliseconds
TimeSteps == {1000, 120000, 3600000}
\* outcomes of the three crypto.randomBytes draws of one key generation
Rnds == { [temporalNonce |-> "aa01", payloadSalt |-> "bb01", sessionId |-> "cc01"] }

\* client nonces: challenge of an address at second 0 plus a suffix, and malformed ones
GoodNonce(a) == MakeNonce(0, generateNonceChallenge(a, 0).signature, 7)
ClientNonces ==
    { GoodNonce(a) : a \in Addresses }
    \cup { MakeNonce(0, generateNonceChallenge("0xA", 0).signature, 1000),
           Str1(Txt("zzzzzzzzzzzzzzzzzzzzzzzzzzzzzzzz")),
           EmptyStr }

ClientRequests ==
    { [playerAddress |-> p.playerAddress, scoreAmount |-> p.scoreAmount,
       transactionAmount |-> p.transactionAmount, timestamp |-> ts, clientNonce |-> n] :
         p \in {q \in Payloads : q.transactionAmount = 2 /\ q.scoreAmount = 100},
         ts \in KeyTimes, n \in ClientNonces }

\* key triples a client can present: built by the client helper, or issued by the
\* server for a client request
Build(kind, p, ts, rnd) ==
    [kind |-> kind, for |-> p, timestamp |-> ts,
     keys |-> IF kind = "client"
                THEN generateClientValidationKeys(p.playerAddress, p.scoreAmount,
                                                  p.transactionAmount, ts, rnd)
                ELSE generateSecureValidationKeys(
                        [playerAddress |-> p.playerAddress, scoreAmount |-> p.scoreAmount,
                         transactionAmount |-> p.transactionAmount, timestamp |-> ts,
                         clientNonce |-> GoodNonce(p.playerAddress)], rnd)]
BuildPayloads == {p \in Payloads : p.scoreAmount = 100 /\ p.transactionAmount = 2}
ClientBuilt == { Build("client", p, ts, rnd) : p \in BuildPayloads, ts \in KeyTimes, rnd \in Rnds }
ServerIssued == { Build("secure", p, ts, rnd) :
                    p \in {q \in BuildPayloads : q.playerAddress = "0xA"},
                    ts \in KeyTimes, rnd \in Rnds }
Triples == ClientBuilt \cup ServerIssued

\* ---------------------------------------------------------------- state
Svc == [usedTemporalKeys |-> usedTemporalKeys, usedPayloadKeys |-> usedPayloadKeys,
        usedIdentityKeys |-> usedIdentityKeys, usedNonces |-> usedNonces,
        otherUsed |-> otherUsed]

SetSvc(svc) ==
    /\ usedTemporalKeys' = svc.usedTemporalKeys
    /\ usedPayloadKeys' = svc.usedPayloadKeys
    /\ usedIdentityKeys' = svc.usedIdentityKeys
    /\ usedNonces' = svc.usedNonces
    /\ otherUsed' = svc.otherUsed

NoRequest == [playerAddress |-> "", scoreAmount |-> 0, transactionAmount |-> 0,
              timestamp |-> 0, clientNonce |-> EmptyStr]
NoPayload == [playerAddress |-> "", scoreAmount |-> 0, transactionAmount |-> 0]
\* lastCall: op, the result, the triple presented (who built it, for which
\* payload and client time), the request, whether a presented key or nonce had
\* been accepted before, and how many of the call's three signed keys were in
\* their used-sets before and after the call
NoCall == [op |-> "none", valid |-> FALSE, securityLevel |-> "FAILED", errors |-> <<>>,
           kind |-> "none", for |-> NoPayload, keyTimestamp |-> 0, request |-> NoRequest,
           replay |-> FALSE, markedBefore |-> 0, marked |-> 0, setsChanged |-> FALSE]

InitService ==
    /\ now = 0
    /\ ticks = 0
    /\ usedTemporalKeys = {}
    /\ usedPayloadKeys = {}
    /\ usedIdentityKeys = {}
    /\ usedNonces = {}
    /\ otherUsed = 0
    /\ bursts = 0
    /\ calls = 0
    /\ lastCall = NoCall
    /\ everHigh = {}
    /\ everAccepted = {}

\* how many of the three signed keys of a call are in their used-sets
MarkedCount(svc, signed) ==
    (IF signed.temporalKey \in svc.usedTemporalKeys THEN 1 ELSE 0)
    + (IF signed.payloadKey \in svc.usedPayloadKeys THEN 1 ELSE 0)
    + (IF signed.identityKey \in svc.usedIdentityKeys THEN 1 ELSE 0)

KeyValues(keys) == {keys.temporalKey, keys.payloadKey, keys.identityKey}

\* ---------------------------------------------------------------- actions
\* a direct call of validateKeys at the current time
ValidateKeysCall ==
    /\ calls < MaxCalls
    /\ \E b \in Triples, p \in Payloads :
         LET request == [playerAddress |-> p.playerAddress, scoreAmount |-> p.scoreAmount,
                         transactionAmount |-> p.transactionAmount, timestamp |-> now]
             r == validateKeys(Svc, b.keys, request)
         IN  /\ SetSvc(r.svc)
             /\ lastCall' = [op |-> "validateKeys", valid |-> r.valid,
                             securityLevel |-> r.securityLevel, errors |-> r.errors,
                             kind |-> b.kind, for |-> b.for, keyTimestamp |-> b.timestamp,
                             request |-> request @@ [clientNonce |-> EmptyStr],
                             replay |-> KeyValues(b.keys) \cap everHigh # {},
                             markedBefore |-> MarkedCount(Svc, r.signed),
                             marked |-> MarkedCount(r.svc, r.signed),
                             setsChanged |-> r.svc # Svc]
             /\ everHigh' = IF r.valid THEN everHigh \cup KeyValues(b.keys) ELSE everHigh
    /\ calls' = calls + 1
    /\ UNCHANGED <<now, ticks, bursts, everAccepted>>
    /\ UNCHANGED endpointVars
    /\ UNCHANGED sideVars

\* a direct call of validateClientRequest at the current time
ValidateClientRequestCall ==
    /\ calls < MaxCalls
    /\ \E cr \in ClientRequests, rnd \in Rnds :
         LET r == validateClientRequest(Svc, cr, now, rnd)
         IN  /\ SetSvc(r.svc)
             /\ lastCall' = [op |-> "validateClientRequest", valid |-> r.valid,
                             securityLevel |-> r.securityLevel, errors |-> r.errors,
                             kind |-> "none", for |-> NoPayload, keyTimestamp |-> 0,
                             request |-> cr,
                             replay |-> cr.clientNonce \in everAccepted,
                             markedBefore |-> 0, marked |-> 0,
                             setsChanged |-> r.svc # Svc]
             /\ everAccepted' = IF r.valid THEN everAccepted \cup {cr.clientNonce}
                                ELSE everAccepted
    /\ calls' = calls + 1
    /\ UNCHANGED <<now, ticks, bursts, everHigh>>
    /\ UNCHANGED endpointVars
    /\ UNCHANGED sideVars

\* the 30-minute timer of the service constructor
CleanupOldKeys ==
    /\ Svc # cleanupOldKeys(Svc)
    /\ SetSvc(cleanupOldKeys(Svc))
    /\ UNCHANGED <<now, ticks, bursts, calls, lastCall, everHigh, everAccepted>>
    /\ UNCHANGED endpointVars
    /\ UNCHANGED sideVars

\* 3333 accepted submissions of other clients: 9999 used-set entries outside
\* the tracked universe
TrafficBurst == 3 * 3333
BackgroundTraffic ==
    /\ bursts < MaxBursts
    /\ bursts' = bursts + 1
    /\ otherUsed' = otherUsed + TrafficBurst
    /\ UNCHANGED <<now, ticks, usedTemporalKeys, usedPayloadKeys, usedIdentityKeys,
                   usedNonces, calls, lastCall, everHigh, everAccepted>>
    /\ UNCHANGED endpointVars
    /\ UNCHANGED sideVars

TickBy(steps) ==
    /\ ticks < MaxTicks
    /\ \E d \in steps : now' = now + d
    /\ ticks' = ticks + 1
    /\ UNCHANGED <<usedTemporalKeys, usedPayloadKeys, usedIdentityKeys, usedNonces,
                   otherUsed, bursts, calls, lastCall, everHigh, everAccepted>>
    /\ UNCHANGED endpointVars
    /\ UNCHANGED sideVars

Tick == TickBy(TimeSteps)

\* ------------------------------------------------ challenge issue and check
\* suffixes a client appends to the challenge: an arbitrary one and a multiple
\* of 1000
ChallengeSuffixes == {7, 1000}
\* clock advances around the end of the 5-minute window, milliseconds
ChallengeSteps == {500, 299500, 299900}

\* how far the clock of the issuing instance is ahead of the checking one,
\* milliseconds
IssuerSkews == {0, 60000, 61000}

\* get-secure-nonce POST: generateNonceChallenge(playerAddress) at the issuer's
\* current time; the client appends its suffix to the challenge
GenerateNonceChallengeCall ==
    /\ lastCall.op = "none"
    /\ \E x \in Addresses, suffix \in ChallengeSuffixes, skew \in IssuerSkews :
         LET ch == generateNonceChallenge(x, now + skew)
         IN  lastCall' = [NoCall EXCEPT !.op = "generateNonceChallenge",
                                        !.valid = ch.success,
                                        !.for = [NoPayload EXCEPT !.playerAddress = x],
                                        !.keyTimestamp = now + skew,
                                        !.request = [NoRequest EXCEPT
                                                       !.playerAddress = x,
                                                       !.timestamp = now + skew,
                                                       !.clientNonce =
                                                          MakeNonce(ch.sec, ch.signature, suffix)]]
    /\ UNCHANGED <<now, ticks, usedTemporalKeys, usedPayloadKeys, usedIdentityKeys,
                   usedNonces, otherUsed, bursts, calls, everHigh, everAccepted>>
    /\ UNCHANGED endpointVars
    /\ UNCHANGED sideVars

\* a direct call of validateNonceWithChallenge at the current time: the nonce
\* built on the issued challenge is presented for an address
ValidateNonceWithChallengeCall ==
    /\ calls < MaxCalls
    /\ lastCall.op \in {"generateNonceChallenge", "validateNonceWithChallenge"}
    /\ \E y \in Addresses :
         LET r == validateNonceWithChallenge(lastCall.request.clientNonce, y, now)
         IN  /\ lastCall' = [lastCall EXCEPT
                                !.op = "validateNonceWithChallenge",
                                !.valid = r.valid,
                                !.errors = IF r.valid THEN <<>> ELSE <<r.error>>,
                                !.request = [@ EXCEPT !.playerAddress = y,
                                                      !.timestamp = now]]
             /\ everAccepted' = IF r.valid
                                  THEN everAccepted \cup {lastCall.request.clientNonce}
                                  ELSE everAccepted
    /\ calls' = calls + 1
    /\ UNCHANGED <<now, ticks, usedTemporalKeys, usedPayloadKeys, usedIdentityKeys,
                   usedNonces, otherUsed, bursts, everHigh>>
    /\ UNCHANGED endpointVars
    /\ UNCHANGED sideVars

\* ============================================ update-player-data POST handler
\* ------------------------------------------------------- handler constants
MAX_SCORE_PER_HOUR == 30000
MAX_TRANSACTIONS_PER_HOUR == 120
MIN_REQUEST_INTERVAL_MS == 5000
MAX_SCORE_PER_MINUTE_AVG == 3000
MAX_SCORE_PER_REQUEST == 1000
MAX_TRANSACTIONS_PER_REQUEST == 3
MIN_SCORE_PER_REQUEST == 1
MAX_SCORE_PER_TRANSACTION == 1000
MIN_SCORE_PER_TRANSACTION == 5
ONE_HOUR_MS == 60 * 60 * 1000
REQUEST_DEDUP_WINDOW == 5 * 60 * 1000
CSRF_MAX_AGE_MS == 5 * 60 * 1000

\* ------------------------------------------------------------ Map objects
\* a Map is the set of its entries, each a record with a key field
Has(m, k) == \E e \in m : e.key = k
Get(m, k) == CHOOSE e \in m : e.key = k
Put(m, e) == {x \in m : x.key # e.key} \cup {e}

\* ---------------------------------------------------------------- auth.ts
allowedOrigins == {"http://localhost:3000", "https://localhost:3000",
                   "https://chopupnad.vercel.app", "https://www.chopupnad.fun/",
                   "https://chopupnad.fun/"}
\* String.prototype.includes: sub occurs in str, case-sensitively
Includes(str, sub) ==
    \E i \in 1..(Len(str) - Len(sub) + 1) : SubSeq(str, i, i + Len(sub) - 1) = sub
\* userAgent.includes('curl') || includes('wget') || includes('Postman')
LooksAutomated(userAgent) ==
    \/ Includes(userAgent, "curl")
    \/ Includes(userAgent, "wget")
    \/ Includes(userAgent, "Postman")
\* headers: origin, the origin part of referer and whether a path follows it, userAgent
validateOrigin(headers) ==
    IF /\ (headers.origin = "" \/ headers.origin \notin allowedOrigins)
       /\ (headers.refererBase = "" \/ headers.refererBase \notin allowedOrigins)
      THEN FALSE
    ELSE IF headers.userAgent = "" \/ LooksAutomated(headers.userAgent)
      THEN FALSE
    ELSE TRUE

\* `${sessionId}-${timestamp}-${nonce}-client` of the client
generateClientCSRFToken(t, suffix) ==
    Dash(Dash(Dash(Str1(Txt("sessionid")), FmtNum(t)), Str1(Txt("csrfnonce"))),
         Str1(Txt(suffix)))

isValidCSRFFormat(token, t) ==
    LET parts == SplitDash(token)
    IN  IF Len(parts) # 4 THEN FALSE
        ELSE IF \/ parts[1] = EmptyStr \/ parts[2] = EmptyStr \/ parts[3] = EmptyStr
                \/ parts[4] # Str1(Txt("client"))
          THEN FALSE
        ELSE IF ParseInt(parts[2]) = NaN THEN FALSE
        ELSE IF t - ParseInt(parts[2]) > CSRF_MAX_AGE_MS THEN FALSE
        ELSE TRUE

\* blockchain.ts isValidAddress
isValidAddress(a) == a \in Addresses

\* ------------------------------------------------------------- submissions
BrowserHeaders == [origin |-> "https://chopupnad.vercel.app", refererBase |-> "",
                   userAgent |-> "Mozilla/5.0"]
CurlHeaders == [origin |-> "https://chopupnad.vercel.app", refererBase |-> "",
                userAgent |-> "curl/8.5.0"]
\* client time at which the submissions are built
SubmitTime == 0
\* what submitPlayerScore sends for (playerAddress, scoreAmount, transactionAmount)
Honest(p) ==
    [kind |-> "honest", playerAddress |-> p.playerAddress, scoreAmount |-> p.scoreAmount,
     transactionAmount |-> p.transactionAmount,
     validationKeys |-> Build("client", p, SubmitTime, CHOOSE r \in Rnds : TRUE).keys,
     clientNonce |-> GoodNonce(p.playerAddress),
     csrfToken |-> generateClientCSRFToken(SubmitTime, "client"),
     headers |-> BrowserHeaders]
PayloadA == [playerAddress |-> "0xA", scoreAmount |-> 100, transactionAmount |-> 2]
PayloadB == [playerAddress |-> "0xB", scoreAmount |-> 100, transactionAmount |-> 2]
Submissions ==
    { Honest(PayloadA), Honest(PayloadB),
      [Honest(PayloadA) EXCEPT !.kind = "tampered", !.scoreAmount = 101],
      [Honest(PayloadA) EXCEPT !.kind = "nokeys", !.validationKeys = NoKeys],
      [Honest(PayloadA) EXCEPT !.kind = "badcsrf",
                               !.csrfToken = generateClientCSRFToken(SubmitTime, "server")],
      [Honest(PayloadA) EXCEPT !.kind = "curl", !.headers = CurlHeaders] }
NoSubmission == [Honest(PayloadA) EXCEPT !.kind = "none", !.playerAddress = "",
                                         !.scoreAmount = 0, !.transactionAmount = 0,
                                         !.validationKeys = NoKeys, !.clientNonce = EmptyStr,
                                         !.csrfToken = EmptyStr]
\* what writeContract throws: Error objects with their messages
WriteErrors ==
    { [isError |-> TRUE, message |-> "execution reverted: AccessControlUnauthorizedAccount"],
      [isError |-> TRUE, message |-> "network timeout"] }

\* ------------------------------------------------------------ handler state
NoHourly == [key |-> <<"", 0>>, score |-> 0, transactions |-> 0, timestamp |-> 0]
NoBehavior == [key |-> "", totalScore |-> 0, requests |-> 0, firstRequest |-> 0]
NoResponse == [status |-> 0, error |-> "", success |-> FALSE, duplicate |-> FALSE,
               transactionHash |-> 0, nonce |-> 0]
\* pc: idle, parsing (await request.json()), signing (await signScoreSubmission),
\* writing (await writeContract), done
NoReq == [pc |-> "idle", sub |-> NoSubmission, at |-> 0,
          hourlyData |-> NoHourly, behaviorData |-> NoBehavior,
          cryptoValidationLevel |-> "none", signedNonce |-> 0,
          layers |-> <<>>, response |-> NoResponse]

InitEndpoint ==
    /\ req = [i \in 1..MaxRequests |-> NoReq]
    /\ processedRequests = {}
    /\ hourlyLimits = {}
    /\ scoreTracking = {}
    /\ ledger = <<>>

\* ================================================ signMessage.ts signing service
\* line 52: the period of the nonce cleanup timer, milliseconds
NONCE_CLEANUP_INTERVAL == 10 * 60 * 1000
\* line 131: the default maxAge of verifySignature, milliseconds
SIGNATURE_MAX_AGE == 5 * 60 * 1000

\* signScoreSubmission and verifySignature calls per behaviour
MaxSignatures == 2
MaxVerifies == 3
\* clock advances of the signing service, milliseconds, and the last instant
SigningSteps == {1000, 301000, 599000}
MaxSigningTicks == 3

\* createMessage: `ScoreSubmission:${playerAddress}:...:${timestamp}`, kept as
\* the parts message.split(':') yields
createMessage(playerAddress, scoreAmount, transactionAmount, nonce, timestamp) ==
    <<"ScoreSubmission", playerAddress, scoreAmount, transactionAmount, nonce, timestamp>>

\* walletClient.signMessage: the signature of the server account over a message
signMessage(message) == [signer |-> "serverAccount", over |-> message]

\* signScoreSubmission at time t with the n-th draw of generateNonce; thrown
\* is TRUE when the input validation or the collision test throws
signScoreSubmission(used, playerAddress, scoreAmount, transactionAmount, t, n) ==
    LET nonce == n
        message == createMessage(playerAddress, scoreAmount, transactionAmount, nonce, t)
    IN  [thrown |-> \/ playerAddress = ""
                    \/ scoreAmount < 0
                    \/ transactionAmount < 0
                    \/ nonce \in used,
         signature |-> signMessage(message), message |-> message,
         signer |-> "serverAccount", nonce |-> nonce, timestamp |-> t]

\* verifySignature at time t against the used-nonce set
verifySignature(used, signature, message, nonce, timestamp, maxAge, t) ==
    IF t - timestamp > maxAge
      THEN [isValid |-> FALSE, reason |-> "Signature expired", used |-> used]
    ELSE IF nonce \in used
      THEN [isValid |-> FALSE, reason |-> "Nonce already used", used |-> used]
    ELSE IF Len(message) # 6 \/ message[1] # "ScoreSubmission"
      THEN [isValid |-> FALSE, reason |-> "Invalid message format", used |-> used]
    ELSE [isValid |-> TRUE, reason |-> "none", used |-> used \cup {nonce}]

\* cleanupOldNonces: usedNonces.clear()
cleanupOldNonces(used) == {}

\* what a caller of verifySignature may present as the message of a signature:
\* the signed message, or one that does not split into the six parts
PresentedMessages(s) == {s.message, SubSeq(s.message, 2, 6)}

\* ------------------------------------------------ score-api.ts session tokens
SERVER_API_SECRET == "apiSecret"
\* line 573: the period of the timer that clears usedSessionTokens, milliseconds
TOKEN_CLEANUP_INTERVAL == 10 * 60 * 1000
\* line 576: the default timestampWindow, and the 30-second step of the loop
TIMESTAMP_WINDOW == 300000
TOKEN_SLOT == 30000

\* token generations and validateSessionToken calls per behaviour
MaxSessionTokens == 2
MaxValidations == 3
\* clock advances around the token window and the timer, milliseconds
SessionSteps == {1000, 301000, 599000}
MaxSessionTicks == 3

\* crypto.createHash('sha256').update(data).digest('hex'), collision free
Sha256(data) == [sha256 |-> data]

\* generateSessionToken: the hash of `${playerAddress}-${timestamp}-${secret}`
generateSessionToken(playerAddress, timestamp) ==
    Sha256(<<playerAddress, timestamp, SERVER_API_SECRET>>)

\* the values of i the loop of validateSessionToken runs through
WindowOffsets(timestampWindow) ==
    {k * TOKEN_SLOT : k \in 0..((timestampWindow - 1) \div TOKEN_SLOT)}

\* validateSessionToken at time t against the used-token set
validateSessionToken(used, token, playerAddress, timestampWindow, t) ==
    IF token \in used
      THEN [result |-> FALSE, used |-> used]
    ELSE IF \E i \in WindowOffsets(timestampWindow) :
               token = generateSessionToken(playerAddress,
                                            ((t - i) \div TOKEN_SLOT) * TOKEN_SLOT)
      THEN [result |-> TRUE, used |-> used \cup {token}]
    ELSE [result |-> FALSE, used |-> (used \cup {token}) \ {token}]

\* ------------------------------------------- score-api.ts TransactionQueue
\* the elements of a sequence
Range(seq) == {seq[k] : k \in DOMAIN seq}

\* no processQueue call is running; no POST is awaited
NoId == [kind |-> "none", at |-> 0, rnd |-> 0]
NoPass == [isProcessing |-> FALSE, now |-> 0, ready |-> <<>>, current |-> NoId,
           detached |-> <<>>]
NoFetch == [active |-> FALSE, id |-> NoId, sub |-> NoSubmission]

InitSide ==
    /\ signUsedNonces = {}
    /\ signing = {}
    /\ signatures = {}
    /\ verifyLog = <<>>
    /\ nextNonceCleanup = NONCE_CLEANUP_INTERVAL
    /\ usedSessionTokens = {}
    /\ sessionTokens = {}
    /\ sessionLog = <<>>
    /\ nextTokenCleanup = TOKEN_CLEANUP_INTERVAL
    /\ pendingBatch = <<>>
    /\ batchDue = -1
    /\ queue = <<>>
    /\ pass = NoPass
    /\ fetch = NoFetch
    /\ clientLog = <<>>
    /\ enqueued = 0
    /\ processingTimer = TRUE
    /\ destroyed = FALSE
    /\ pendingScore = 0
    /\ pendingTransactions = 0
    /\ submitTimeout = -1
    /\ isSubmitting = FALSE
    /\ awaitedSubmissions = 0
    /\ managerLog = <<>>
    /\ order = [present |-> FALSE, items |-> <<>>, deadline |-> 0]
    /\ orderTimers = <<>>
    /\ ordersStarted = 0
    /\ ordersDone = 0
    /\ level = 0
    /\ lastChop = 0
    /\ chopping = FALSE
    /\ chopTimer = -1
    /\ gamePlayerAddress = ""
    /\ mounted = FALSE
    /\ running = TRUE
    /\ powerUntil = 0
    /\ gameLog = <<>>

serviceVars == <<ticks, usedTemporalKeys, usedPayloadKeys, usedIdentityKeys, usedNonces,
                 otherUsed, bursts, calls, lastCall, everHigh, everAccepted>>

\* lines 72-102: a call of signScoreSubmission at the current time, up to its
\* await of walletClient.signMessage; the timestamp is read, the nonce drawn
\* and the collision test made before the await
SignScoreSubmissionCall ==
    /\ Cardinality(signatures) + Cardinality(signing) < MaxSignatures
    /\ \E p \in Payloads :
         LET r == signScoreSubmission(signUsedNonces, p.playerAddress, p.scoreAmount,
                                      p.transactionAmount, now,
                                      Cardinality(signatures) + Cardinality(signing) + 1)
         IN  /\ ~r.thrown
             /\ signing' = signing \cup
                   {[signature |-> r.signature, message |-> r.message,
                     signer |-> r.signer, nonce |-> r.nonce, timestamp |-> r.timestamp]}
    /\ UNCHANGED <<now, signUsedNonces, signatures, verifyLog, nextNonceCleanup>>
    /\ UNCHANGED serviceVars
    /\ UNCHANGED endpointVars
    /\ UNCHANGED sessionVars
    /\ UNCHANGED clientVars
    /\ UNCHANGED extraVars

\* lines 102-116: walletClient.signMessage resolves and the call returns its
\* result, with the timestamp and the nonce of the time of the call
SignMessageResolves ==
    /\ \E r \in signing :
         /\ signing' = signing \ {r}
         /\ signatures' = signatures \cup {r}
    /\ UNCHANGED <<now, signUsedNonces, verifyLog, nextNonceCleanup>>
    /\ UNCHANGED serviceVars
    /\ UNCHANGED endpointVars
    /\ UNCHANGED sessionVars
    /\ UNCHANGED clientVars
    /\ UNCHANGED extraVars

\* a call of verifySignature at the current time with the parts of an issued
\* signature and the default maxAge
VerifySignatureCall ==
    /\ Len(verifyLog) < MaxVerifies
    /\ \E s \in signatures : \E message \in PresentedMessages(s) :
         LET r == verifySignature(signUsedNonces, s.signature, message, s.nonce,
                                  s.timestamp, SIGNATURE_MAX_AGE, now)
         IN  /\ signUsedNonces' = r.used
             /\ verifyLog' = Append(verifyLog,
                                    [nonce |-> s.nonce, timestamp |-> s.timestamp,
                                     message |-> message, at |-> now,
                                     isValid |-> r.isValid, reason |-> r.reason])
    /\ UNCHANGED <<now, signing, signatures, nextNonceCleanup>>
    /\ UNCHANGED serviceVars
    /\ UNCHANGED endpointVars
    /\ UNCHANGED sessionVars
    /\ UNCHANGED clientVars
    /\ UNCHANGED extraVars

\* lines 50-52: the timer of the constructor fires
CleanupOldNonces ==
    /\ now >= nextNonceCleanup
    /\ signUsedNonces' = cleanupOldNonces(signUsedNonces)
    /\ nextNonceCleanup' = nextNonceCleanup + NONCE_CLEANUP_INTERVAL
    /\ UNCHANGED <<now, signing, signatures, verifyLog>>
    /\ UNCHANGED serviceVars
    /\ UNCHANGED endpointVars
    /\ UNCHANGED sessionVars
    /\ UNCHANGED clientVars
    /\ UNCHANGED extraVars

\* the clock advances, never past a timer that is due
SigningTick ==
    /\ ticks < MaxSigningTicks
    /\ \E d \in SigningSteps :
         /\ now + d <= nextNonceCleanup
         /\ now' = now + d
    /\ ticks' = ticks + 1
    /\ UNCHANGED signingVars
    /\ UNCHANGED <<usedTemporalKeys, usedPayloadKeys, usedIdentityKeys, usedNonces,
                   otherUsed, bursts, calls, lastCall, everHigh, everAccepted>>
    /\ UNCHANGED endpointVars
    /\ UNCHANGED sessionVars
    /\ UNCHANGED clientVars
    /\ UNCHANGED extraVars

\* the signing service: issue, verification, the cleanup timer and the clock
NextSigning ==
    \/ SignScoreSubmissionCall
    \/ SignMessageResolves
    \/ VerifySignatureCall
    \/ CleanupOldNonces
    \/ SigningTick

\* a token is generated for a player in the current 30-second slot
GenerateSessionTokenCall ==
    /\ Cardinality(sessionTokens) < MaxSessionTokens
    /\ \E x \in Addresses :
         sessionTokens' = sessionTokens \cup
             {generateSessionToken(x, (now \div TOKEN_SLOT) * TOKEN_SLOT)}
    /\ sessionTokens' # sessionTokens
    /\ UNCHANGED <<now, usedSessionTokens, sessionLog, nextTokenCleanup>>
    /\ UNCHANGED serviceVars
    /\ UNCHANGED endpointVars
    /\ UNCHANGED signingVars
    /\ UNCHANGED clientVars
    /\ UNCHANGED extraVars

\* a call of validateSessionToken at the current time with a generated token,
\* for either player, with the default window
ValidateSessionTokenCall ==
    /\ Len(sessionLog) < MaxValidations
    /\ \E token \in sessionTokens, y \in Addresses :
         LET r == validateSessionToken(usedSessionTokens, token, y, TIMESTAMP_WINDOW, now)
         IN  /\ usedSessionTokens' = r.used
             /\ sessionLog' = Append(sessionLog,
                                     [token |-> token, playerAddress |-> y, at |-> now,
                                      result |-> r.result])
    /\ UNCHANGED <<now, sessionTokens, nextTokenCleanup>>
    /\ UNCHANGED serviceVars
    /\ UNCHANGED endpointVars
    /\ UNCHANGED signingVars
    /\ UNCHANGED clientVars
    /\ UNCHANGED extraVars

\* lines 567-573: the timer fires, usedSessionTokens.clear()
ClearUsedSessionTokens ==
    /\ now >= nextTokenCleanup
    /\ usedSessionTokens' = {}
    /\ nextTokenCleanup' = nextTokenCleanup + TOKEN_CLEANUP_INTERVAL
    /\ UNCHANGED <<now, sessionTokens, sessionLog>>
    /\ UNCHANGED serviceVars
    /\ UNCHANGED endpointVars
    /\ UNCHANGED signingVars
    /\ UNCHANGED clientVars
    /\ UNCHANGED extraVars

\* the clock advances, never past a timer that is due
SessionTick ==
    /\ ticks < MaxSessionTicks
    /\ \E d \in SessionSteps :
         /\ now + d <= nextTokenCleanup
         /\ now' = now + d
    /\ ticks' = ticks + 1
    /\ UNCHANGED <<usedSessionTokens, sessionTokens, sessionLog, nextTokenCleanup>>
    /\ UNCHANGED <<usedTemporalKeys, usedPayloadKeys, usedIdentityKeys, usedNonces,
                   otherUsed, bursts, calls, lastCall, everHigh, everAccepted>>
    /\ UNCHANGED endpointVars
    /\ UNCHANGED signingVars
    /\ UNCHANGED clientVars
    /\ UNCHANGED extraVars

\* the session tokens: generation, validation, the cleanup timer and the clock
NextSession ==
    \/ GenerateSessionTokenCall
    \/ ValidateSessionTokenCall
    \/ ClearUsedSessionTokens
    \/ SessionTick

Init == InitService /\ InitEndpoint /\ InitSide

SpecSession == Init /\ [][NextSession]_vars

SpecSigning == Init /\ [][NextSigning]_vars

\* createAuthenticatedResponse({ error }, status)
ErrorResponse(status, error) == [NoResponse EXCEPT !.status = status, !.error = error]

\* mutant: the ceilings are compared with the recorded sums alone
AbuseTiers_NotProspective(sub, t, playerAllowed, hourlyData, behaviorData) ==
    IF ~playerAllowed
      THEN ErrorResponse(429, "Rate limit exceeded: Too many requests for this player")
    ELSE IF hourlyData.score > MAX_SCORE_PER_HOUR
      THEN ErrorResponse(429, "Hourly score limit exceeded")
    ELSE IF hourlyData.transactions > MAX_TRANSACTIONS_PER_HOUR
      THEN ErrorResponse(429, "Hourly transaction limit exceeded")
    ELSE NoResponse

\* mutant: the average tier starts at 5 recorded requests
AbuseTiers_FromFive(sub, t, playerAllowed, hourlyData, behaviorData) ==
    LET timeSinceLastRequest ==
            t - (behaviorData.firstRequest + behaviorData.requests * 1000)
        sessionDuration == t - behaviorData.firstRequest
        avgTooHigh == /\ sessionDuration > 0
                      /\ behaviorData.totalScore * (60000 \div MAX_SCORE_PER_MINUTE_AVG)
                           > sessionDuration
    IN  IF ~playerAllowed
          THEN ErrorResponse(429, "Rate limit exceeded: Too many requests for this player")
        ELSE IF hourlyData.score + sub.scoreAmount > MAX_SCORE_PER_HOUR
          THEN ErrorResponse(429, "Hourly score limit exceeded")
        ELSE IF hourlyData.transactions + sub.transactionAmount > MAX_TRANSACTIONS_PER_HOUR
          THEN ErrorResponse(429, "Hourly transaction limit exceeded")
        ELSE IF behaviorData.requests > 0 /\ timeSinceLastRequest < MIN_REQUEST_INTERVAL_MS
          THEN ErrorResponse(429, "Request too frequent: Minimum 5 seconds between score submissions")
        ELSE IF avgTooHigh /\ behaviorData.requests >= 5
          THEN ErrorResponse(429, "Suspicious scoring pattern detected")
        ELSE NoResponse

\* mutant: the average tier is evaluated before the minimum interval
AbuseTiers_AverageFirst(sub, t, playerAllowed, hourlyData, behaviorData) ==
    LET timeSinceLastRequest ==
            t - (behaviorData.firstRequest + behaviorData.requests * 1000)
        sessionDuration == t - behaviorData.firstRequest
        avgTooHigh == /\ sessionDuration > 0
                      /\ behaviorData.totalScore * (60000 \div MAX_SCORE_PER_MINUTE_AVG)
                           > sessionDuration
    IN  IF ~playerAllowed
          THEN ErrorResponse(429, "Rate limit exceeded: Too many requests for this player")
        ELSE IF hourlyData.score + sub.scoreAmount > MAX_SCORE_PER_HOUR
          THEN ErrorResponse(429, "Hourly score limit exceeded")
        ELSE IF hourlyData.transactions + sub.transactionAmount > MAX_TRANSACTIONS_PER_HOUR
          THEN ErrorResponse(429, "Hourly transaction limit exceeded")
        ELSE IF avgTooHigh /\ behaviorData.requests > 5
          THEN ErrorResponse(429, "Suspicious scoring pattern detected")
        ELSE IF behaviorData.requests > 0 /\ timeSinceLastRequest < MIN_REQUEST_INTERVAL_MS
          THEN ErrorResponse(429, "Request too frequent: Minimum 5 seconds between score submissions")
        ELSE NoResponse

\* lines 195-271: per-player rate limit, hourly ceilings, behavioural analysis
AbuseTiers(sub, t, playerAllowed, hourlyData, behaviorData) ==
    LET timeSinceLastRequest ==
            t - (behaviorData.firstRequest + behaviorData.requests * 1000)
        sessionDuration == t - behaviorData.firstRequest
        \* (totalScore * 60000) / sessionDuration > MAX_SCORE_PER_MINUTE_AVG with
        \* both sides scaled by sessionDuration / MAX_SCORE_PER_MINUTE_AVG (which
        \* divides 60000), so that the products stay within 32 bits
        avgTooHigh == /\ sessionDuration > 0
                      /\ behaviorData.totalScore * (60000 \div MAX_SCORE_PER_MINUTE_AVG)
                           > sessionDuration
    IN  IF ~playerAllowed
          THEN ErrorResponse(429, "Rate limit exceeded: Too many requests for this player")
        ELSE IF hourlyData.score + sub.scoreAmount > MAX_SCORE_PER_HOUR
          THEN ErrorResponse(429, "Hourly score limit exceeded")
        ELSE IF hourlyData.transactions + sub.transactionAmount > MAX_TRANSACTIONS_PER_HOUR
          THEN ErrorResponse(429, "Hourly transaction limit exceeded")
        ELSE IF behaviorData.requests > 0 /\ timeSinceLastRequest < MIN_REQUEST_INTERVAL_MS
          THEN ErrorResponse(429, "Request too frequent: Minimum 5 seconds between score submissions")
        ELSE IF avgTooHigh /\ behaviorData.requests > 5
          THEN ErrorResponse(429, "Suspicious scoring pattern detected")
        ELSE NoResponse

\* lines 309-409: CSRF format, required fields, address, amounts
FieldChecks(sub, t) ==
    IF sub.csrfToken = EmptyStr \/ ~isValidCSRFFormat(sub.csrfToken, t)
      THEN ErrorResponse(401, "Unauthorized: Invalid CSRF token format")
    ELSE IF sub.playerAddress = ""
      THEN ErrorResponse(400, "Missing required fields: playerAddress, scoreAmount, transactionAmount")
    ELSE IF ~isValidAddress(sub.playerAddress)
      THEN ErrorResponse(400, "Invalid player address format")
    ELSE IF sub.scoreAmount < 0 \/ sub.transactionAmount < 0
      THEN ErrorResponse(400, "Score and transaction amounts must be non-negative")
    ELSE IF sub.scoreAmount > MAX_SCORE_PER_REQUEST
      THEN ErrorResponse(400, "Score too high")
    ELSE IF sub.transactionAmount > MAX_TRANSACTIONS_PER_REQUEST
      THEN ErrorResponse(400, "Too many transactions")
    ELSE IF sub.scoreAmount < MIN_SCORE_PER_REQUEST /\ sub.scoreAmount # 0
      THEN ErrorResponse(400, "Score amount too small")
    ELSE IF /\ sub.transactionAmount > 0
            /\ sub.scoreAmount > MAX_SCORE_PER_TRANSACTION * sub.transactionAmount
      THEN ErrorResponse(400, "Score per transaction too high")
    ELSE IF /\ sub.transactionAmount > 0
            /\ sub.scoreAmount < MIN_SCORE_PER_TRANSACTION * sub.transactionAmount
      THEN ErrorResponse(400, "Score per transaction too low")
    ELSE NoResponse

\* the catch block: the response for what was thrown; the message is looked
\* at only when it is an Error
CatchResponse(error) ==
    IF error.isError /\ Includes(error.message, "insufficient funds")
      THEN ErrorResponse(400, "Insufficient funds to complete transaction")
    ELSE IF error.isError /\ Includes(error.message, "execution reverted")
      THEN ErrorResponse(400, "Contract execution failed - check if wallet has GAME_ROLE permission")
    ELSE IF error.isError /\ Includes(error.message, "AccessControlUnauthorizedAccount")
      THEN ErrorResponse(403, "Unauthorized: Wallet does not have GAME_ROLE permission")
    ELSE IF error.isError /\ Includes(error.message, "nonce")
      THEN ErrorResponse(400, "Transaction nonce error - please retry")
    ELSE ErrorResponse(500, "Failed to update player data")

Finish(i, r, response, layers) ==
    [r EXCEPT !.pc = "done", !.response = response, !.layers = r.layers \o layers]

\* ---------------------------------------------------------- handler steps
\* lines 159-192: origin validation and per-IP rate limit, up to await request.json()
ArriveWith(i, submissions) ==
    /\ req[i].pc = "idle"
    /\ i > 1 => req[i - 1].pc # "idle"
    /\ \E sub \in submissions, ipAllowed \in BOOLEAN :
         LET r == [req[i] EXCEPT !.sub = sub, !.at = now]
         IN  req' = [req EXCEPT ![i] =
                 IF ~validateOrigin(sub.headers)
                   THEN Finish(i, r, ErrorResponse(403, "Forbidden: Invalid origin"),
                               <<"validateOrigin">>)
                 ELSE IF ~ipAllowed
                   THEN Finish(i, r, ErrorResponse(429,
                                 "Rate limit exceeded: Too many requests from this IP"),
                               <<"validateOrigin", "rateLimit">>)
                 ELSE [r EXCEPT !.pc = "parsing",
                                !.layers = <<"validateOrigin", "rateLimit">>]]
    /\ UNCHANGED <<now, ticks, usedTemporalKeys, usedPayloadKeys, usedIdentityKeys,
                   usedNonces, otherUsed, bursts, calls, lastCall, everHigh, everAccepted,
                   processedRequests, hourlyLimits, scoreTracking, ledger>>
    /\ UNCHANGED sideVars

Arrive(i) == ArriveWith(i, Submissions)

\* lines 193-413: from the parsed body to the call of signScoreSubmission
Validate(i) ==
    /\ req[i].pc = "parsing"
    /\ \E playerAllowed \in BOOLEAN :
         LET r == req[i]
             sub == r.sub
             hourlyKey == <<sub.playerAddress, now \div ONE_HOUR_MS>>
             hourlyData == IF Has(hourlyLimits, hourlyKey) THEN Get(hourlyLimits, hourlyKey)
                           ELSE [key |-> hourlyKey, score |-> 0, transactions |-> 0,
                                 timestamp |-> now]
             behaviorKey == sub.playerAddress
             behaviorData == IF Has(scoreTracking, behaviorKey)
                               THEN Get(scoreTracking, behaviorKey)
                             ELSE [key |-> behaviorKey, totalScore |-> 0, requests |-> 0,
                                   firstRequest |-> now]
             tiers == AbuseTiers(sub, now, playerAllowed, hourlyData, behaviorData)
             validationRequest == [playerAddress |-> sub.playerAddress,
                                   scoreAmount |-> sub.scoreAmount,
                                   transactionAmount |-> sub.transactionAmount,
                                   timestamp |-> now]
             cryptoValidation == validateKeys(Svc, sub.validationKeys, validationRequest)
             fields == FieldChecks(sub, now)
             rl == [r EXCEPT !.hourlyData = hourlyData, !.behaviorData = behaviorData]
         IN  IF tiers.status # 0
               THEN /\ req' = [req EXCEPT ![i] = Finish(i, r, tiers, <<"rateLimit", "abuseTiers">>)]
                    /\ UNCHANGED <<usedTemporalKeys, usedPayloadKeys, usedIdentityKeys,
                                   usedNonces, otherUsed>>
             ELSE IF \/ sub.validationKeys.temporalKey = EmptyStr
                     \/ sub.validationKeys.payloadKey = EmptyStr
                     \/ sub.validationKeys.identityKey = EmptyStr
               THEN /\ req' = [req EXCEPT ![i] =
                          Finish(i, rl, ErrorResponse(400, "Missing validation keys: temporalKey, payloadKey, and identityKey required"),
                                 <<"rateLimit", "abuseTiers">>)]
                    /\ UNCHANGED <<usedTemporalKeys, usedPayloadKeys, usedIdentityKeys,
                                   usedNonces, otherUsed>>
             ELSE IF ~cryptoValidation.valid
               THEN /\ req' = [req EXCEPT ![i] =
                          Finish(i, [rl EXCEPT !.cryptoValidationLevel =
                                                   cryptoValidation.securityLevel],
                                 ErrorResponse(401, "Cryptographic validation failed"),
                                 <<"rateLimit", "abuseTiers", "validateKeys">>)]
                    /\ SetSvc(cryptoValidation.svc)
             ELSE /\ SetSvc(cryptoValidation.svc)
                  /\ req' = [req EXCEPT ![i] =
                        LET rk == [rl EXCEPT !.cryptoValidationLevel =
                                                 cryptoValidation.securityLevel]
                        IN  IF fields.status # 0
                              THEN Finish(i, rk, fields,
                                          <<"rateLimit", "abuseTiers", "validateKeys",
                                            "isValidCSRFFormat">>)
                            ELSE [rk EXCEPT !.pc = "signing",
                                            !.layers = r.layers \o
                                              <<"rateLimit", "abuseTiers", "validateKeys",
                                                "isValidCSRFFormat", "signScoreSubmission">>]]
    /\ UNCHANGED <<now, ticks, bursts, calls, lastCall, everHigh, everAccepted,
                   processedRequests, hourlyLimits, scoreTracking, ledger>>
    /\ UNCHANGED sideVars

\* signMessage.ts generateNonce: the 32 random bytes drawn for invocation i,
\* distinct from every other draw
generateNonce(i) == i

\* lines 413-467: signScoreSubmission resolves; dedup lookup; the entry is marked
\* as processing; writeContract is called
Signed(i) ==
    /\ req[i].pc = "signing"
    /\ LET r == req[i]
           nonce == generateNonce(i)
           dedupKey == <<r.sub.playerAddress, nonce>>
       IN  IF Has(processedRequests, dedupKey)
             THEN /\ req' = [req EXCEPT ![i] =
                        Finish(i, [r EXCEPT !.signedNonce = nonce],
                               [Get(processedRequests, dedupKey).result
                                   EXCEPT !.status = 200, !.duplicate = TRUE],
                               <<"processedRequests">>)]
                  /\ UNCHANGED processedRequests
           ELSE /\ processedRequests' =
                      Put(processedRequests,
                          [key |-> dedupKey, timestamp |-> now, processing |-> TRUE,
                           result |-> NoResponse])
                /\ req' = [req EXCEPT ![i] =
                      [r EXCEPT !.pc = "writing", !.signedNonce = nonce,
                                !.layers = r.layers \o <<"processedRequests", "writeContract">>]]
    /\ UNCHANGED <<now, ticks, usedTemporalKeys, usedPayloadKeys, usedIdentityKeys,
                   usedNonces, otherUsed, bursts, calls, lastCall, everHigh, everAccepted,
                   hourlyLimits, scoreTracking, ledger>>
    /\ UNCHANGED sideVars

\* lines 467-514: writeContract resolves with a transaction hash; the tracking
\* data and the dedup entry are updated from the handler's locals
WriteSucceeds(i) ==
    /\ req[i].pc = "writing"
    /\ LET r == req[i]
           sub == r.sub
           hash == Len(ledger) + 1
           successResult == [NoResponse EXCEPT !.status = 200, !.success = TRUE,
                                               !.transactionHash = hash,
                                               !.nonce = r.signedNonce]
       IN  /\ ledger' = Append(ledger, [player |-> sub.playerAddress,
                                        score |-> sub.scoreAmount,
                                        transactions |-> sub.transactionAmount,
                                        validationKeys |-> sub.validationKeys,
                                        clientNonce |-> sub.clientNonce,
                                        nonce |-> r.signedNonce,
                                        invocation |-> i, hash |-> hash,
                                        at |-> now])
           /\ hourlyLimits' = Put(hourlyLimits,
                                  [key |-> r.hourlyData.key,
                                   score |-> r.hourlyData.score + sub.scoreAmount,
                                   transactions |-> r.hourlyData.transactions
                                                      + sub.transactionAmount,
                                   timestamp |-> r.hourlyData.timestamp])
           /\ scoreTracking' = Put(scoreTracking,
                                   [key |-> r.behaviorData.key,
                                    totalScore |-> r.behaviorData.totalScore + sub.scoreAmount,
                                    requests |-> r.behaviorData.requests + 1,
                                    firstRequest |-> r.behaviorData.firstRequest])
           /\ processedRequests' =
                 Put(processedRequests,
                     [key |-> <<sub.playerAddress, r.signedNonce>>, timestamp |-> now,
                      processing |-> FALSE, result |-> successResult])
           /\ req' = [req EXCEPT ![i] = Finish(i, r, successResult, <<>>)]
    /\ UNCHANGED <<now, ticks, usedTemporalKeys, usedPayloadKeys, usedIdentityKeys,
                   usedNonces, otherUsed, bursts, calls, lastCall, everHigh, everAccepted>>
    /\ UNCHANGED sideVars

WriteFails_Counted(i) ==
    /\ req[i].pc = "writing"
    /\ \E error \in WriteErrors :
         req' = [req EXCEPT ![i] = Finish(i, req[i], CatchResponse(error), <<>>)]
    /\ scoreTracking' = Put(scoreTracking,
                            [req[i].behaviorData EXCEPT !.requests = @ + 1])
    /\ UNCHANGED <<now, ticks, usedTemporalKeys, usedPayloadKeys, usedIdentityKeys,
                   usedNonces, otherUsed, bursts, calls, lastCall, everHigh, everAccepted,
                   processedRequests, hourlyLimits, ledger>>
    /\ UNCHANGED sideVars

\* lines 516-553: writeContract throws; the catch block answers, the dedup entry
\* stays as it is
WriteFails(i) ==
    /\ req[i].pc = "writing"
    /\ \E error \in WriteErrors :
         req' = [req EXCEPT ![i] = Finish(i, req[i], CatchResponse(error), <<>>)]
    /\ UNCHANGED <<now, ticks, usedTemporalKeys, usedPayloadKeys, usedIdentityKeys,
                   usedNonces, otherUsed, bursts, calls, lastCall, everHigh, everAccepted,
                   processedRequests, hourlyLimits, scoreTracking, ledger>>
    /\ UNCHANGED sideVars

\* mutant: the sweep deletes the records older than its own period
AbuseSweep_TenMinutes ==
    /\ hourlyLimits' = {e \in hourlyLimits : ~(now - e.timestamp > 10 * 60 * 1000)}
    /\ scoreTracking' = {e \in scoreTracking : ~(now - e.firstRequest > 10 * 60 * 1000)}
    /\ <<hourlyLimits', scoreTracking'>> # <<hourlyLimits, scoreTracking>>
    /\ UNCHANGED <<now, ticks, usedTemporalKeys, usedPayloadKeys, usedIdentityKeys,
                   usedNonces, otherUsed, bursts, calls, lastCall, everHigh, everAccepted,
                   req, processedRequests, ledger>>
    /\ UNCHANGED sideVars

\* lines 95-111: the 10-minute sweep of the abuse tracking maps
AbuseSweep ==
    /\ hourlyLimits' = {e \in hourlyLimits : ~(now - e.timestamp > ONE_HOUR_MS)}
    /\ scoreTracking' = {e \in scoreTracking : ~(now - e.firstRequest > ONE_HOUR_MS)}
    /\ <<hourlyLimits', scoreTracking'>> # <<hourlyLimits, scoreTracking>>
    /\ UNCHANGED <<now, ticks, usedTemporalKeys, usedPayloadKeys, usedIdentityKeys,
                   usedNonces, otherUsed, bursts, calls, lastCall, everHigh, everAccepted,
                   req, processedRequests, ledger>>
    /\ UNCHANGED sideVars

\* lines 149-157: the 2-minute sweep of the dedup map
DedupSweep ==
    /\ processedRequests' =
          {e \in processedRequests : ~(now - e.timestamp > REQUEST_DEDUP_WINDOW)}
    /\ processedRequests' # processedRequests
    /\ UNCHANGED <<now, ticks, usedTemporalKeys, usedPayloadKeys, usedIdentityKeys,
                   usedNonces, otherUsed, bursts, calls, lastCall, everHigh, everAccepted,
                   req, hourlyLimits, scoreTracking, ledger>>
    /\ UNCHANGED sideVars

\* the endpoint under concurrent submissions, its three timers and the clock
Next ==
    \/ \E i \in 1..MaxRequests : Arrive(i)
    \/ \E i \in 1..MaxRequests : Validate(i)
    \/ \E i \in 1..MaxRequests : Signed(i)
    \/ \E i \in 1..MaxRequests : WriteSucceeds(i)
    \/ \E i \in 1..MaxRequests : WriteFails(i)
    \/ CleanupOldKeys
    \/ AbuseSweep
    \/ DedupSweep
    \/ BackgroundTraffic
    \/ Tick

Spec == Init /\ [][Next]_vars

\* ===================================== the endpoint after earlier submissions
\* An accepted submission of the past: when it was handled and committed, and
\* its amounts.  A history is the sequence of an identity's past submissions,
\* each handled to completion before the next arrived.
PastWrite(at, score, transactions) ==
    [at |-> at, score |-> score, transactions |-> transactions]
\* n submissions gap milliseconds apart, the first at base
Series(base, gap, n, score, last, transactions) ==
    [k \in 1..n |-> PastWrite(base + (k - 1) * gap,
                              IF k = n THEN last ELSE score, transactions)]
\* the identity of the histories and the time of its first submission
HistoryPlayer == "0xA"
HistoryBase == 2700000
Histories ==
    { \* 29,900 points and 118 transactions within fifteen minutes of one hour
      Series(HistoryBase, 15000, 59, 500, 900, 2),
      \* five submissions, each as early as the interval tier allows
      <<PastWrite(HistoryBase, 1000, 2), PastWrite(HistoryBase + 6000, 1000, 2),
        PastWrite(HistoryBase + 7000, 1000, 2), PastWrite(HistoryBase + 8000, 1000, 2),
        PastWrite(HistoryBase + 9000, 1000, 2)>> }

RECURSIVE ScoreOf(_, _)
ScoreOf(h, S) ==
    IF S = {} THEN 0
    ELSE LET k == CHOOSE x \in S : TRUE IN h[k].score + ScoreOf(h, S \ {k})
RECURSIVE TransactionsOf(_, _)
TransactionsOf(h, S) ==
    IF S = {} THEN 0
    ELSE LET k == CHOOSE x \in S : TRUE IN h[k].transactions + TransactionsOf(h, S \ {k})

\* hourlyLimits after the history: one entry per hour bucket, stamped with the
\* time the bucket was first read
HourlyAfter(h) ==
    { LET S == {k \in 1..Len(h) : h[k].at \div ONE_HOUR_MS = b}
          first == CHOOSE k \in S : \A x \in S : k <= x
      IN  [key |-> <<HistoryPlayer, b>>, score |-> ScoreOf(h, S),
           transactions |-> TransactionsOf(h, S), timestamp |-> h[first].at] :
        b \in {h[k].at \div ONE_HOUR_MS : k \in 1..Len(h)} }
\* scoreTracking after the history
TrackingAfter(h) ==
    IF Len(h) = 0 THEN {}
    ELSE {[key |-> HistoryPlayer, totalScore |-> ScoreOf(h, 1..Len(h)),
           requests |-> Len(h), firstRequest |-> h[1].at]}
\* the ledger after the history; the keys of past submissions lie outside the
\* tracked universe and their signing nonces are -1, -2, ...
LedgerAfter(h) ==
    [k \in 1..Len(h) |->
        [player |-> HistoryPlayer, score |-> h[k].score,
         transactions |-> h[k].transactions, validationKeys |-> NoKeys,
         clientNonce |-> EmptyStr, nonce |-> 0 - k, invocation |-> 0, hash |-> k,
         at |-> h[k].at]]
\* processedRequests after the history, at time t: the entries no sweep can have
\* removed yet
ProcessedAfter(h, t) ==
    { [key |-> <<HistoryPlayer, 0 - k>>, timestamp |-> h[k].at, processing |-> FALSE,
       result |-> [NoResponse EXCEPT !.status = 200, !.success = TRUE,
                                     !.transactionHash = k, !.nonce = 0 - k]] :
        k \in {x \in 1..Len(h) : ~(t - h[x].at > REQUEST_DEDUP_WINDOW)} }

\* the state right after the last submission of a history was committed
InitAbuse ==
    \E h \in Histories :
        /\ now = IF Len(h) = 0 THEN HistoryBase ELSE h[Len(h)].at
        /\ ticks = 0
        /\ usedTemporalKeys = {}
        /\ usedPayloadKeys = {}
        /\ usedIdentityKeys = {}
        /\ usedNonces = {}
        /\ otherUsed = 3 * Len(h)
        /\ bursts = 0
        /\ calls = 0
        /\ lastCall = NoCall
        /\ everHigh = {}
        /\ everAccepted = {}
        /\ req = [i \in 1..MaxRequests |-> NoReq]
        /\ processedRequests = ProcessedAfter(h, now)
        /\ hourlyLimits = HourlyAfter(h)
        /\ scoreTracking = TrackingAfter(h)
        /\ ledger = LedgerAfter(h)
        /\ InitSide

\* the random draws of the client that builds the keys of invocation i
SlotRnd(i) == [temporalNonce |-> "aa" \o ToString(i), payloadSalt |-> "bb" \o ToString(i),
               sessionId |-> "cc" \o ToString(i)]
\* what submitPlayerScore sends at time t
HonestAt(p, t, rnd) ==
    [Honest(p) EXCEPT
        !.validationKeys = generateClientValidationKeys(p.playerAddress, p.scoreAmount,
                                                        p.transactionAmount, t, rnd),
        !.csrfToken = generateClientCSRFToken(t, "client")]
AbusePayloads ==
    { [playerAddress |-> HistoryPlayer, scoreAmount |-> 100, transactionAmount |-> 2],
      [playerAddress |-> HistoryPlayer, scoreAmount |-> 200, transactionAmount |-> 2],
      [playerAddress |-> HistoryPlayer, scoreAmount |-> 100, transactionAmount |-> 3] }
ArriveFresh(i) == ArriveWith(i, {HonestAt(p, now, SlotRnd(i)) : p \in AbusePayloads})

\* the endpoint, continued from a history, under fresh honest submissions, the
\* sweep of the counter maps and the clock
NextAbuse ==
    \/ \E i \in 1..MaxRequests : ArriveFresh(i)
    \/ \E i \in 1..MaxRequests : Validate(i)
    \/ \E i \in 1..MaxRequests : Signed(i)
    \/ \E i \in 1..MaxRequests : WriteSucceeds(i)
    \/ \E i \in 1..MaxRequests : WriteFails(i)
    \/ AbuseSweep
    \/ Tick

SpecAbuse == InitAbuse /\ [][NextAbuse]_vars

\* ======================================= score-api.ts TransactionQueue client
\* lines 260-261, 286, 354: batching and retry constants
BATCH_DELAY == 2000
MAX_BATCH_SIZE == 5
MAX_ATTEMPTS == 5

\* enqueue calls and clock advances of the client per behaviour
MaxEnqueues == 2
MaxClientTicks == 5
\* clock advances of the client, milliseconds
ClientSteps == {2000, 10000}
\* Math.random() * 5000 of the priority backoff
PriorityJitters == {0, 2500}
\* what the game enqueues
ClientPayloads ==
    { [playerAddress |-> "0xA", scoreAmount |-> 100, transactionAmount |-> 1,
       throws |-> {}] }
\* what a caller of enqueue can pass: callbacks that return, and an onSuccess,
\* an onFailure or an onRetry that throws
CallbackPayloads ==
    { [playerAddress |-> "0xA", scoreAmount |-> 100, transactionAmount |-> 1,
       throws |-> thrown] : thrown \in {{}, {"onSuccess"}, {"onFailure"}, {"onRetry"}} }

\* `tx_${Date.now()}_${random}` and `batch_${Date.now()}_${random}`, the n-th
\* random draw being distinct from every other
TxId(kind, t, n) == [kind |-> kind, at |-> t, rnd |-> n]

\* enqueue: the transaction object; callbacks names the enqueue calls whose
\* callbacks the transaction invokes, and throwing, for each of them, the
\* callbacks among onSuccess, onFailure and onRetry that throw when called
NewTransaction(p, t, n) ==
    [id |-> TxId("tx", t, n), playerAddress |-> p.playerAddress,
     scoreAmount |-> p.scoreAmount, transactionAmount |-> p.transactionAmount,
     attempts |-> 0, maxAttempts |-> MAX_ATTEMPTS, nextRetryAt |-> t,
     callbacks |-> <<TxId("tx", t, n)>>, throwing |-> <<p.throws>>]

SumOver(txs, F(_)) ==
    LET sum[k \in 0..Len(txs)] == IF k = 0 THEN 0 ELSE sum[k - 1] + F(txs[k])
    IN  sum[Len(txs)]
TxScore(tx) == tx.scoreAmount
TxTransactions(tx) == tx.transactionAmount

\* mutant: the combined transaction carries the amounts of the first one
combineTransactions_FirstOnly(transactions, t) ==
    [transactions[1] EXCEPT !.id = TxId("batch", t, transactions[1].id.rnd),
                            !.nextRetryAt = t,
                            !.callbacks = [k \in 1..Len(transactions) |-> transactions[k].id],
                            !.throwing = [k \in 1..Len(transactions) |->
                                             transactions[k].throwing[1]]]

\* combineTransactions at time t
combineTransactions(transactions, t) ==
    [id |-> TxId("batch", t, transactions[1].id.rnd),
     playerAddress |-> transactions[1].playerAddress,
     scoreAmount |-> SumOver(transactions, TxScore),
     transactionAmount |-> SumOver(transactions, TxTransactions),
     attempts |-> 0, maxAttempts |-> MAX_ATTEMPTS, nextRetryAt |-> t,
     callbacks |-> [k \in 1..Len(transactions) |-> transactions[k].id],
     throwing |-> [k \in 1..Len(transactions) |-> transactions[k].throwing[1]]]

\* flushBatch at time t: what is pushed on the queue, one transaction per
\* player in the order the players first appear in the batch
flushBatch(batch, t) ==
    LET first(tx) == \A j \in DOMAIN batch :
                        (batch[j].playerAddress = tx.playerAddress /\ batch[j] # tx)
                            => \E k \in 1..(j - 1) : batch[k] = tx
        heads == SelectSeq(batch, first)
        group(h) == SelectSeq(batch, LAMBDA tx : tx.playerAddress = h.playerAddress)
    IN  [k \in 1..Len(heads) |->
            IF Len(group(heads[k])) = 1 THEN heads[k]
            ELSE combineTransactions(group(heads[k]), t)]

\* the transaction of the queue with an id, and the queue without it
Transaction(q, id) == q[CHOOSE k \in DOMAIN q : q[k].id = id]
removeTransaction(q, id) == SelectSeq(q, LAMBDA tx : tx.id # id)

\* the delay before the next attempt after a failed one
Min(a, b) == IF a < b THEN a ELSE b
Pow2(n) == LET pow[k \in 0..n] == IF k = 0 THEN 1 ELSE 2 * pow[k - 1] IN pow[n]
backoffDelay(isPriorityError, attempts, jitter) ==
    IF isPriorityError
      THEN Min(3000 + jitter + (1000 * attempts), 60000)
    ELSE Min(1000 * Pow2(attempts - 1), 30000)

\* lines 450-451: result.error?.includes('Another transaction has higher
\* priority') || result.error?.includes('higher priority')
isPriorityError(result) ==
    \/ Includes(result.error, "Another transaction has higher priority")
    \/ Includes(result.error, "higher priority")

\* submissions made so far
Submits == {k \in DOMAIN clientLog : clientLog[k].ev = "submit"}

\* transaction.attempts >= transaction.maxAttempts
\* mutant: one more attempt is allowed
AttemptsExhausted_Late(tx) == tx.attempts > tx.maxAttempts
AttemptsExhausted(tx) == tx.attempts >= tx.maxAttempts

\* lines 375-398: a callback of the transaction is called.  The callback of a
\* combined transaction calls the members' callbacks in their order, and the
\* first that throws ends the forEach: Invoked is the members whose callback
\* was called, Throws whether the call threw
Throws(tx, kind) == \E k \in DOMAIN tx.callbacks : kind \in tx.throwing[k]
Invoked(tx, kind) ==
    LET throwers == {k \in DOMAIN tx.callbacks : kind \in tx.throwing[k]}
    IN  IF throwers = {} THEN tx.callbacks
        ELSE SubSeq(tx.callbacks, 1, CHOOSE k \in throwers : \A j \in throwers : k <= j)

\* what a throwing callback throws: an Error whose message names no priority
\* conflict
ThrownError == [error |-> "callback failed"]

\* an entry of the log of the client: what happened to the transaction, and
\* the enqueue calls whose callback was called
QueueEvent(ev, tx, callbacks) ==
    [ev |-> ev, id |-> tx.id, attempts |-> tx.attempts, callbacks |-> callbacks,
     keys |-> NoKeys]

\* lines 473 and 500: transaction.nextRetryAt = now + backoffDelay, seen by
\* the queue when it still holds the transaction
Reschedule(q, id, at) ==
    [k \in DOMAIN q |-> IF q[k].id = id THEN [q[k] EXCEPT !.nextRetryAt = at] ELSE q[k]]

\* lines 476-502, the catch branch for an error thrown by a callback of tx: at
\* attempts >= maxAttempts the transaction is removed and onFailure is called
\* with the message, otherwise it is rescheduled.  escaped: onFailure threw, and
\* the error leaves processQueue
Catch(tx, q, passNow, log, jitter) ==
    IF AttemptsExhausted(tx)
      THEN [queue |-> removeTransaction(q, tx.id),
            log |-> Append(log, QueueEvent("onFailure", tx, Invoked(tx, "onFailure"))),
            escaped |-> Throws(tx, "onFailure")]
    ELSE [queue |-> Reschedule(q, tx.id,
                        passNow + backoffDelay(isPriorityError(ThrownError),
                                               tx.attempts, jitter)),
          log |-> log,
          escaped |-> FALSE]

\* lines 421-430, the loop from the next of the ready transactions up to the
\* await of submitPlayerScore: attempts++, and onRetry when it is not the first
\* attempt; an onRetry that throws sends the transaction through the catch
\* branch and the loop goes on with the one after it.  outcome: "await" at a
\* call of submitPlayerScore for current, "end" when no transaction is left,
\* "escaped" when an error left processQueue
RECURSIVE Advance(_, _, _, _, _, _)
Advance(q, detached, ready, passNow, log, jitter) ==
    IF ready = <<>>
      THEN [outcome |-> "end", queue |-> q, detached |-> detached, ready |-> ready,
            current |-> NoId, log |-> log]
    ELSE LET attempts == Transaction(q \o detached, ready[1]).attempts + 1
             counted(txs) == [k \in DOMAIN txs |->
                                IF txs[k].id = ready[1]
                                  THEN [txs[k] EXCEPT !.attempts = attempts]
                                ELSE txs[k]]
             tx == Transaction(counted(q \o detached), ready[1])
             retried == IF attempts > 1
                          THEN Append(log, QueueEvent("onRetry", tx, Invoked(tx, "onRetry")))
                        ELSE log
             caught == Catch(tx, counted(q), passNow, retried, jitter)
         IN  IF attempts > 1 /\ Throws(tx, "onRetry")
               THEN IF caught.escaped
                      THEN [outcome |-> "escaped", queue |-> caught.queue,
                            detached |-> counted(detached), ready |-> Tail(ready),
                            current |-> NoId, log |-> caught.log]
                    ELSE Advance(caught.queue, counted(detached), Tail(ready), passNow,
                                 caught.log, jitter)
             ELSE [outcome |-> "await", queue |-> counted(q),
                   detached |-> counted(detached), ready |-> Tail(ready),
                   current |-> tx.id, log |-> retried]

\* an error left processQueue: the call ends before line 505, and isProcessing
\* stays true
Abandon(q, passNow, log) ==
    /\ queue' = q
    /\ pass' = [isProcessing |-> TRUE, now |-> passNow, ready |-> <<>>,
                current |-> NoId, detached |-> <<>>]
    /\ fetch' = NoFetch
    /\ clientLog' = log

\* lines 421-434 and 505: the loop of processQueue goes on from the ready
\* transactions to submitPlayerScore's await of fetch, or to its end, where
\* isProcessing is reset
Iterate(q, ready, passNow, log, jitter) ==
    \E next \in {Advance(q, pass.detached, ready, passNow, log, jitter)} :
       IF next.outcome = "escaped"
         THEN Abandon(next.queue, passNow, next.log)
       ELSE IF next.outcome = "end"
         THEN /\ queue' = next.queue
              /\ pass' = NoPass
              /\ fetch' = NoFetch
              /\ clientLog' = next.log
       ELSE \E tx \in {Transaction(next.queue \o next.detached, next.current)} :
            \E sub \in {HonestAt([playerAddress |-> tx.playerAddress,
                                  scoreAmount |-> tx.scoreAmount,
                                  transactionAmount |-> tx.transactionAmount], now,
                                 SlotRnd(Cardinality({k \in DOMAIN next.log :
                                                        next.log[k].ev = "submit"}) + 1))} :
               /\ queue' = next.queue
               /\ pass' = [isProcessing |-> TRUE, now |-> passNow, ready |-> next.ready,
                           current |-> tx.id, detached |-> next.detached]
               /\ fetch' = [active |-> TRUE, id |-> tx.id, sub |-> sub]
               /\ clientLog' = Append(next.log,
                                      [ev |-> "submit", id |-> tx.id,
                                       attempts |-> tx.attempts,
                                       callbacks |-> tx.callbacks,
                                       keys |-> sub.validationKeys])

\* lines 280-305: enqueue(playerAddress, scoreAmount, transactionAmount) and
\* addToBatch: the transaction joins the batch, which is flushed when full and
\* otherwise waits for the batching timer, restarted
enqueue(p) ==
    LET batch == Append(pendingBatch, NewTransaction(p, now, enqueued + 1))
    IN  /\ IF Len(batch) >= MAX_BATCH_SIZE
              THEN /\ queue' = queue \o flushBatch(batch, now)
                   /\ pendingBatch' = <<>>
                   /\ batchDue' = -1
            ELSE /\ pendingBatch' = batch
                 /\ batchDue' = now + BATCH_DELAY
                 /\ UNCHANGED queue
        /\ enqueued' = enqueued + 1

\* a call of enqueue, for one of the payloads
EnqueueWith(payloads, max) ==
    /\ enqueued < max
    /\ \E p \in payloads : enqueue(p)
    /\ UNCHANGED <<now, pass, fetch, clientLog>>
    /\ UNCHANGED serviceVars
    /\ UNCHANGED endpointVars
    /\ UNCHANGED <<signingVars, sessionVars, lifeVars, extraVars>>

Enqueue == EnqueueWith(ClientPayloads, MaxEnqueues)

\* lines 313-347: batchingTimer fires
FlushBatch ==
    /\ batchDue >= 0
    /\ now >= batchDue
    /\ queue' = queue \o flushBatch(pendingBatch, now)
    /\ pendingBatch' = <<>>
    /\ batchDue' = -1
    /\ UNCHANGED <<now, pass, fetch, clientLog, enqueued>>
    /\ UNCHANGED serviceVars
    /\ UNCHANGED endpointVars
    /\ UNCHANGED <<signingVars, sessionVars, lifeVars, extraVars>>

\* lines 412-433: processingTimer fires and processQueue runs up to its first
\* await
ProcessQueue ==
    /\ processingTimer
    /\ ~pass.isProcessing
    /\ queue # <<>>
    /\ LET readyTransactions == SelectSeq(queue, LAMBDA tx : tx.nextRetryAt <= now)
       IN  /\ readyTransactions # <<>>
           /\ \E jitter \in PriorityJitters :
                 Iterate(queue,
                         [k \in DOMAIN readyTransactions |-> readyTransactions[k].id],
                         now, clientLog, jitter)
    /\ UNCHANGED <<now, pendingBatch, batchDue, enqueued>>
    /\ UNCHANGED serviceVars
    /\ UNCHANGED endpointVars
    /\ UNCHANGED <<signingVars, sessionVars, lifeVars, extraVars>>

\* lines 435-502: submitPlayerScore resolves with result.  On a success the
\* transaction is removed and onSuccess called; on a failure with attempts >=
\* maxAttempts it is removed and onFailure called, otherwise it is rescheduled.
\* A callback that throws sends the transaction through the catch branch.  The
\* loop then goes on to its next await or to its end, unless an error left it.
\* The log keeps whether the attempt succeeded or failed
Settle(result) ==
    /\ fetch.active
    /\ \E jitter \in PriorityJitters :
       \E tx \in {Transaction(queue \o pass.detached, pass.current)} :
         LET removed == removeTransaction(queue, tx.id)
             called(kind, q, log) ==
                 IF ~Throws(tx, kind)
                   THEN Iterate(q, pass.ready, pass.now, log, jitter)
                 ELSE \E caught \in {Catch(tx, q, pass.now, log, jitter)} :
                         IF caught.escaped
                           THEN Abandon(caught.queue, pass.now, caught.log)
                         ELSE Iterate(caught.queue, pass.ready, pass.now, caught.log,
                                      jitter)
         IN  IF result.success
               THEN called("onSuccess", removed,
                           clientLog \o <<QueueEvent("succeeded", tx, tx.callbacks),
                                          QueueEvent("onSuccess", tx,
                                                     Invoked(tx, "onSuccess"))>>)
             ELSE IF AttemptsExhausted(tx)
               THEN called("onFailure", removed,
                           clientLog \o <<QueueEvent("failed", tx, tx.callbacks),
                                          QueueEvent("onFailure", tx,
                                                     Invoked(tx, "onFailure"))>>)
             ELSE Iterate(Reschedule(queue, tx.id,
                              pass.now + backoffDelay(isPriorityError(result),
                                                      tx.attempts, jitter)),
                          pass.ready, pass.now,
                          Append(clientLog, QueueEvent("failed", tx, tx.callbacks)),
                          jitter)
    /\ UNCHANGED <<now, pendingBatch, batchDue, enqueued>>
    /\ UNCHANGED serviceVars
    /\ UNCHANGED <<signingVars, sessionVars, lifeVars, extraVars>>

\* lines 88-97: what submitPlayerScore returns when fetch rejects or the
\* response is not ok
SubmitError(message) ==
    [NoResponse EXCEPT !.error = "Failed to submit score: " \o message]
\* line 86: response.statusText is what the transport delivers with the status:
\* the empty string (the Response the route builds, and every HTTP/2 or HTTP/3
\* response) or the reason phrase of an HTTP/1.1 status line
StatusTexts(status) ==
    {"", IF status = 400 THEN "Bad Request"
         ELSE IF status = 401 THEN "Unauthorized"
         ELSE IF status = 403 THEN "Forbidden"
         ELSE IF status = 429 THEN "Too Many Requests"
         ELSE "Internal Server Error"}
\* lines 70-87: what submitPlayerScore returns for a response of the endpoint
\* that arrives with this status text
submitPlayerScore(response, statusText) ==
    IF response.status >= 200 /\ response.status <= 299
      THEN response
    ELSE SubmitError("HTTP " \o ToString(response.status) \o ": " \o statusText)

\* the results submitPlayerScore can resolve with: a success, an error of the
\* endpoint, and a body that reports a priority conflict
SubmitResults ==
    { [NoResponse EXCEPT !.status = 200, !.success = TRUE, !.transactionHash = 1],
      [NoResponse EXCEPT !.status = 200, !.error = "Another transaction has higher priority"] }
    \cup { submitPlayerScore(ErrorResponse(429, "Rate limit exceeded"), statusText) :
             statusText \in StatusTexts(429) }

\* submitPlayerScore resolves
SubmitResolves ==
    /\ \E result \in SubmitResults : Settle(result)
    /\ UNCHANGED endpointVars

\* the clock of the client advances, never past the batching timer
ClientTick ==
    /\ ticks < MaxClientTicks
    /\ \E d \in ClientSteps :
         /\ batchDue >= 0 => now + d <= batchDue
         /\ now' = now + d
    /\ ticks' = ticks + 1
    /\ UNCHANGED <<usedTemporalKeys, usedPayloadKeys, usedIdentityKeys, usedNonces,
                   otherUsed, bursts, calls, lastCall, everHigh, everAccepted>>
    /\ UNCHANGED endpointVars
    /\ UNCHANGED sideVars

\* the queue alone: enqueue, the two timers, the results of submitPlayerScore
\* and the clock
NextQueue ==
    \/ Enqueue
    \/ FlushBatch
    \/ ProcessQueue
    \/ SubmitResolves
    \/ ClientTick

SpecQueue == Init /\ [][NextQueue]_vars

\* lines 528-541: destroy().  Both timers are cleared, the pending batch is
\* flushed into the queue and the queue is emptied with it.  A processQueue
\* call suspended in its await keeps the transactions of its snapshot, which
\* are objects the queue no longer holds.
Destroy ==
    /\ ~destroyed
    /\ processingTimer' = FALSE
    /\ batchDue' = -1
    /\ LET flushed == queue \o flushBatch(pendingBatch, now)
           held == {pass.current} \cup Range(pass.ready)
       IN  pass' = IF pass.isProcessing
                     THEN [pass EXCEPT !.detached =
                             SelectSeq(flushed, LAMBDA tx : tx.id \in held)]
                   ELSE pass
    /\ queue' = <<>>
    /\ pendingBatch' = <<>>
    /\ destroyed' = TRUE
    /\ UNCHANGED <<now, fetch, clientLog, enqueued>>
    /\ UNCHANGED serviceVars
    /\ UNCHANGED endpointVars
    /\ UNCHANGED <<signingVars, sessionVars, extraVars>>

\* the queue with the unmount of the game component, which destroys it
NextDestroy ==
    \/ Enqueue
    \/ FlushBatch
    \/ ProcessQueue
    \/ SubmitResolves
    \/ Destroy
    \/ ClientTick

SpecDestroy == Init /\ [][NextDestroy]_vars

\* line 408: the processing interval, and the first firing at or after t
PROCESSING_INTERVAL == 1000
NextFiring(t) == ((t + PROCESSING_INTERVAL - 1) \div PROCESSING_INTERVAL) * PROCESSING_INTERVAL

\* the times at which a timer of the queue next has something to do: the
\* batching timer, and the firings of the processing interval at which a
\* rescheduled transaction is due
Deadlines ==
    {t \in {batchDue} \cup {NextFiring(queue[k].nextRetryAt) : k \in DOMAIN queue} : t > now}

\* time passes until the next of these; a batching timer that is due fires first
TimerTick ==
    /\ Deadlines # {}
    /\ batchDue >= 0 => now < batchDue
    /\ now' = CHOOSE t \in Deadlines : \A u \in Deadlines : t <= u
    /\ UNCHANGED serviceVars
    /\ UNCHANGED endpointVars
    /\ UNCHANGED sideVars

\* a call of enqueue by a caller whose callbacks may throw, made in the first
\* MaxEnqueueTime milliseconds
MaxEnqueueTime == 2000
EnqueueCallbacks ==
    /\ now <= MaxEnqueueTime
    /\ EnqueueWith(CallbackPayloads, MaxEnqueues)

\* the attempts of a transaction that the endpoint may answer with a priority
\* conflict: the first MaxConflictAttempts ones
MaxConflictAttempts == 1
\* submitPlayerScore returns
SubmitSettles ==
    /\ fetch.active
    /\ \E result \in SubmitResults :
          /\ isPriorityError(result)
                => Transaction(queue \o pass.detached, pass.current).attempts
                      <= MaxConflictAttempts
          /\ Settle(result)
    /\ UNCHANGED endpointVars

\* the queue when time passes from one timer firing to the next
NextTimed ==
    \/ EnqueueCallbacks
    \/ FlushBatch
    \/ ProcessQueue
    \/ SubmitSettles
    \/ TimerTick

\* the timers keep firing and every submitPlayerScore call returns
SpecQueueFair ==
    /\ Init
    /\ [][NextTimed]_vars
    /\ WF_vars(FlushBatch)
    /\ WF_vars(ProcessQueue)
    /\ WF_vars(SubmitSettles)
    /\ WF_vars(TimerTick)

\* ------------------------------------------------- ScoreSubmissionManager
SUBMIT_DELAY == 3000
MaxAdds == 2
MaxImmediateCalls == 1
MaxManagerDestroys == 1
ManagerPoints == {0, 100}
ManagerCounts == {1}

\* lines 211-232, scheduleSubmission: a timeout that is set is cleared and a
\* new one is set in every case
scheduleSubmission(t) == t + SUBMIT_DELAY

Adds == Cardinality({k \in DOMAIN managerLog : managerLog[k].ev = "add"})
ManagerEvent(ev, score, transactions) ==
    [ev |-> ev, score |-> score, transactions |-> transactions]

\* lines 166-170: addScore(points); nothing happens for points <= 0
AddScore ==
    /\ Adds < MaxAdds
    /\ \E points \in ManagerPoints :
         IF points <= 0
           THEN UNCHANGED <<pendingScore, submitTimeout, managerLog>>
         ELSE /\ pendingScore' = pendingScore + points
              /\ submitTimeout' = scheduleSubmission(now)
              /\ managerLog' = Append(managerLog, ManagerEvent("add", points, 0))
    /\ UNCHANGED <<pendingTransactions, isSubmitting, awaitedSubmissions>>
    /\ UNCHANGED now
    /\ UNCHANGED serviceVars
    /\ UNCHANGED endpointVars
    /\ UNCHANGED <<signingVars, sessionVars, clientVars, gameVars>>

\* lines 173-177: addTransaction(count)
AddTransaction ==
    /\ Adds < MaxAdds
    /\ \E count \in ManagerCounts :
         /\ pendingTransactions' = pendingTransactions + count
         /\ submitTimeout' = scheduleSubmission(now)
         /\ managerLog' = Append(managerLog, ManagerEvent("add", 0, count))
    /\ UNCHANGED <<pendingScore, isSubmitting, awaitedSubmissions>>
    /\ UNCHANGED now
    /\ UNCHANGED serviceVars
    /\ UNCHANGED endpointVars
    /\ UNCHANGED <<signingVars, sessionVars, clientVars, gameVars>>

\* lines 180-203, submitImmediately up to its await, when the timeout handle
\* stands for timeout (-1 when it has fired): refused while a submission is in
\* progress; otherwise the timeout is cleared, the pending amounts are taken
\* and, unless both are zero, passed to submitPlayerScore; the events come
\* after those in log
submitImmediately(timeout, log) ==
    IF isSubmitting
      THEN /\ managerLog' = Append(log, ManagerEvent("in progress", 0, 0))
           /\ submitTimeout' = timeout
           /\ UNCHANGED <<pendingScore, pendingTransactions, isSubmitting,
                          awaitedSubmissions>>
    ELSE /\ submitTimeout' = -1
         /\ pendingScore' = 0
         /\ pendingTransactions' = 0
         /\ IF pendingScore = 0 /\ pendingTransactions = 0
              THEN /\ managerLog' = log
                   /\ UNCHANGED <<isSubmitting, awaitedSubmissions>>
            ELSE /\ isSubmitting' = TRUE
                 /\ awaitedSubmissions' = awaitedSubmissions + 1
                 /\ managerLog' = Append(log,
                       ManagerEvent("submit", pendingScore, pendingTransactions))

\* lines 218-231: the timeout fires; submitImmediately is called when an
\* amount is pending
SubmitTimeoutFires ==
    /\ submitTimeout >= 0
    /\ now >= submitTimeout
    /\ IF pendingScore > 0 \/ pendingTransactions > 0
         THEN submitImmediately(-1, managerLog)
       ELSE /\ submitTimeout' = -1
            /\ UNCHANGED <<pendingScore, pendingTransactions, isSubmitting,
                           awaitedSubmissions, managerLog>>
    /\ UNCHANGED now
    /\ UNCHANGED serviceVars
    /\ UNCHANGED endpointVars
    /\ UNCHANGED <<signingVars, sessionVars, clientVars, gameVars>>

ManagerCalls(ev) == Cardinality({k \in DOMAIN managerLog : managerLog[k].ev = ev})

\* lines 180-203: the user calls submitImmediately
SubmitImmediatelyCall ==
    /\ ManagerCalls("call") < MaxImmediateCalls
    /\ submitImmediately(submitTimeout, Append(managerLog, ManagerEvent("call", 0, 0)))
    /\ UNCHANGED now
    /\ UNCHANGED serviceVars
    /\ UNCHANGED endpointVars
    /\ UNCHANGED <<signingVars, sessionVars, clientVars, gameVars>>

\* lines 203-207: an awaited submitPlayerScore returns, with a success or
\* with an error, and the finally block runs
SubmissionReturns ==
    /\ awaitedSubmissions > 0
    /\ awaitedSubmissions' = awaitedSubmissions - 1
    /\ isSubmitting' = FALSE
    /\ \E success \in BOOLEAN :
         managerLog' = Append(managerLog,
                          ManagerEvent(IF success THEN "returned" ELSE "failed", 0, 0))
    /\ UNCHANGED <<pendingScore, pendingTransactions, submitTimeout>>
    /\ UNCHANGED now
    /\ UNCHANGED serviceVars
    /\ UNCHANGED endpointVars
    /\ UNCHANGED <<signingVars, sessionVars, clientVars, gameVars>>

\* lines 244-250: destroy() of the manager: the timeout is cleared and
\* isSubmitting is reset, also while a submission is awaited
ManagerDestroy ==
    /\ ManagerCalls("destroy") < MaxManagerDestroys
    /\ submitTimeout' = -1
    /\ isSubmitting' = FALSE
    /\ managerLog' = Append(managerLog, ManagerEvent("destroy", 0, 0))
    /\ UNCHANGED <<pendingScore, pendingTransactions, awaitedSubmissions>>
    /\ UNCHANGED now
    /\ UNCHANGED serviceVars
    /\ UNCHANGED endpointVars
    /\ UNCHANGED <<signingVars, sessionVars, clientVars, gameVars>>

\* time passes until the timeout is due
ManagerTick ==
    /\ submitTimeout > now
    /\ now' = submitTimeout
    /\ UNCHANGED serviceVars
    /\ UNCHANGED endpointVars
    /\ UNCHANGED sideVars

\* the manager: the calls of the user, the timeout, the return of a
\* submission and the clock
NextManager ==
    \/ AddScore
    \/ AddTransaction
    \/ SubmitImmediatelyCall
    \/ ManagerDestroy
    \/ SubmitTimeoutFires
    \/ SubmissionReturns
    \/ ManagerTick

\* the timeout fires when it is due, every submission returns, time passes;
\* no call of the user has to happen
SpecManager ==
    /\ Init
    /\ [][NextManager]_vars
    /\ WF_vars(SubmitTimeoutFires)
    /\ WF_vars(SubmissionReturns)
    /\ WF_vars(ManagerTick)

\* ------------------------------------------------------------ ChoppingGame
NEW_ORDER_DELAY == 700
CHOP_BASE == 60
KNIFE_COOLDOWN == 36
KNIFE_POWER == 6000
ORDER_SECONDS == 12
MaxOrders == 3
MaxGameTicks == 8
\* the game is followed for this long after the mount, milliseconds
MaxGameTime == 18000
\* the images are loaded this long after the mount at most
MaxLoadTime == 100
GameSteps == {100, 17000}
\* the vegetables on the belt with their hits
VegHits == [mushroom |-> 1, tomato |-> 1, onion |-> 2]
\* what a pack holds: vegetables, rotten ones and the knife, each with the
\* hits it takes at most
BeltItems ==
    {<<k, VegHits[k]>> : k \in DOMAIN VegHits}
       \cup {<<"rotten:mushroom", 1>>, <<"knife", 1>>}
\* line 977: Math.floor(rand() * 8)
DurDraws == {0, 7}
\* lines 963-975: the pool newOrder draws, three to six vegetables, each with
\* its Math.floor(rand() * diff.orderVar)
OrderPools ==
    { << [key |-> "mushroom", extra |-> 0], [key |-> "mushroom", extra |-> 0],
         [key |-> "mushroom", extra |-> 0] >>,
      << [key |-> "mushroom", extra |-> 0], [key |-> "tomato", extra |-> 1],
         [key |-> "tomato", extra |-> 0] >> }
\* the playerAddress prop: no wallet connected, or a player
GamePlayers == {"", "0xA"}

\* line 136: ceilSec
ceilSec(ms) == IF ms <= 0 THEN 0 ELSE (ms + 999) \div 1000

\* lines 177-189, diffCurve: Math.round(lerp(2, 3, t)) and
\* Math.round(lerp(2, 4, t)) with t = clamp01(lv / 12)
diffCurve(lv) ==
    LET l == IF lv < 0 THEN 0 ELSE IF lv > 12 THEN 12 ELSE lv
    IN  [orderSize |-> (30 + l) \div 12, orderVar |-> (15 + l) \div 6]

\* lines 951-994: newOrder at level lv and time t with the pool and the
\* duration drawn
newOrder(pool, durDraw, lv, t) ==
    LET diff == diffCurve(lv)
        keys == {pool[i].key : i \in DOMAIN pool}
        amount(x) == diff.orderSize + x.extra
        dur == 18 + durDraw - Min(lv, 8)
    IN  [present |-> TRUE,
         items |-> [k \in keys |->
                       SumOver(SelectSeq(pool, LAMBDA x : x.key = k), amount)],
         deadline |-> t + (IF dur < ORDER_SECONDS THEN ORDER_SECONDS ELSE dur) * 1000]

\* the draws of newOrder that the difficulty allows
OrderDraws(lv) ==
    {d \in OrderPools \X DurDraws :
        \A i \in DOMAIN d[1] : d[1][i].extra < diffCurve(lv).orderVar}

\* lines 424-471, 996-1006: the component is mounted with its playerAddress
\* prop and registers its listeners
MountGame ==
    /\ ~mounted
    /\ mounted' = TRUE
    /\ \E a \in GamePlayers : gamePlayerAddress' = a
    /\ UNCHANGED <<order, orderTimers, ordersStarted, ordersDone, level, lastChop, chopping,
                   chopTimer, running, powerUntil, gameLog>>
    /\ UNCHANGED now
    /\ UNCHANGED serviceVars
    /\ UNCHANGED endpointVars
    /\ UNCHANGED <<signingVars, sessionVars, clientVars, managerVars>>

\* lines 411-421: the images are loaded and the game starts with its first
\* order and its first animation frame requested
StartGame ==
    /\ mounted
    /\ ordersStarted = 0
    /\ now <= MaxLoadTime
    /\ \E d \in OrderDraws(level) : order' = newOrder(d[1], d[2], level, now)
    /\ ordersStarted' = 1
    /\ UNCHANGED <<orderTimers, ordersDone, level, lastChop, chopping, chopTimer,
                   gamePlayerAddress, mounted, running, powerUntil, gameLog>>
    /\ UNCHANGED now
    /\ UNCHANGED serviceVars
    /\ UNCHANGED endpointVars
    /\ UNCHANGED <<signingVars, sessionVars, clientVars, managerVars>>

GameEvent(ev, amount) == [ev |-> ev, order |-> ordersStarted, amount |-> amount]

\* lines 1008-1093, finalizeOrderWhenDone for the order with these items: when
\* every required count is 0 the delivery bonus is awarded, the transaction is
\* enqueued when a player is connected and newOrder is scheduled
finalizeOrderWhenDone(items) ==
    IF order.present /\ \A k \in DOMAIN items : items[k] = 0
      THEN LET remain == ceilSec(order.deadline - now)
               deliveryBonus == 250 + remain * 10
           IN  /\ IF gamePlayerAddress # "" /\ ~destroyed
                    THEN /\ enqueue([playerAddress |-> gamePlayerAddress,
                                     scoreAmount |-> deliveryBonus,
                                     transactionAmount |-> 1,
                                     throws |-> {}])
                         /\ gameLog' = gameLog \o <<GameEvent("bonus", deliveryBonus),
                                                    GameEvent("enqueue", deliveryBonus)>>
                  ELSE /\ gameLog' = Append(gameLog, GameEvent("bonus", deliveryBonus))
                       /\ UNCHANGED <<pendingBatch, batchDue, queue, enqueued>>
               /\ orderTimers' = Append(orderTimers, now + NEW_ORDER_DELAY)
    ELSE UNCHANGED <<gameLog, orderTimers, pendingBatch, batchDue, queue, enqueued>>

\* lines 173-174: isRotten, isKnife
isRotten(k) == Len(k) >= 7 /\ SubSeq(k, 1, 7) = "rotten:"
isKnife(k) == k = "knife"

\* line 805: the cooldown of a chop at time t
ChopCooldown(t) == IF powerUntil > t THEN KNIFE_COOLDOWN ELSE CHOP_BASE

\* lines 804-817, 918-948: a chop, not sooner than the cooldown after the last
\* one.  While choppingRef is still set, the timeout of the earlier chop not
\* having run, only lastChop moves; otherwise the chop hits an item of key that
\* has hp hits left.  An item that dies
\* starts the knife power when it is the knife; when it is neither the knife
\* nor rotten and belongs to the order (its key is a key of order.items) it
\* lowers the required count, not below 0, and finalizeOrderWhenDone runs
Chop(key, hp) ==
    /\ mounted
    /\ now - lastChop >= ChopCooldown(now)
    /\ lastChop' = now
    /\ IF chopping
         THEN UNCHANGED <<chopping, chopTimer, powerUntil, order, gameLog, orderTimers,
                          pendingBatch, batchDue, queue, enqueued>>
       ELSE /\ chopping' = TRUE
            /\ chopTimer' = now + ChopCooldown(now)
            /\ powerUntil' = IF hp - 1 <= 0 /\ isKnife(key) THEN now + KNIFE_POWER
                             ELSE powerUntil
            /\ IF /\ hp - 1 <= 0
                  /\ ~isKnife(key)
                  /\ ~isRotten(key)
                  /\ order.present
                  /\ key \in DOMAIN order.items
                 THEN LET left == IF order.items[key] - 1 < 0 THEN 0
                                  ELSE order.items[key] - 1
                          items == [order.items EXCEPT ![key] = left]
                      IN  /\ order' = [order EXCEPT !.items = items]
                          /\ finalizeOrderWhenDone(items)
               ELSE UNCHANGED <<order, gameLog, orderTimers,
                                pendingBatch, batchDue, queue, enqueued>>
    /\ UNCHANGED <<ordersStarted, ordersDone, level, gamePlayerAddress, mounted, running>>
    /\ UNCHANGED <<now, pass, fetch, clientLog, lifeVars>>
    /\ UNCHANGED serviceVars
    /\ UNCHANGED endpointVars
    /\ UNCHANGED <<signingVars, sessionVars, managerVars>>

\* lines 812-815: the timeout of a chop fires and the chop is over
ChopTimeout ==
    /\ chopping
    /\ now >= chopTimer
    /\ chopping' = FALSE
    /\ chopTimer' = -1
    /\ UNCHANGED <<order, orderTimers, ordersStarted, ordersDone, level, lastChop,
                   gamePlayerAddress, mounted, running, powerUntil, gameLog>>
    /\ UNCHANGED now
    /\ UNCHANGED serviceVars
    /\ UNCHANGED endpointVars
    /\ UNCHANGED <<signingVars, sessionVars, clientVars, managerVars>>

\* lines 1082-1092: a scheduled timeout fires: the order counts as done, the
\* level follows (the score the handler sees is the one of the first render,
\* 0) and newOrder replaces the order
NewOrderTimeout ==
    /\ orderTimers # <<>>
    /\ now >= orderTimers[1]
    /\ ordersStarted < MaxOrders
    /\ ordersDone' = ordersDone + 1
    /\ level' = (ordersDone' \div 2) + (0 \div 700)
    /\ \E d \in OrderDraws(level') : order' = newOrder(d[1], d[2], level', now)
    /\ ordersStarted' = ordersStarted + 1
    /\ orderTimers' = Tail(orderTimers)
    /\ UNCHANGED <<lastChop, chopping, chopTimer, gamePlayerAddress, mounted, running,
                   powerUntil, gameLog>>
    /\ UNCHANGED now
    /\ UNCHANGED serviceVars
    /\ UNCHANGED endpointVars
    /\ UNCHANGED <<signingVars, sessionVars, clientVars, managerVars>>

\* the animation frame has something to do for the order: its time is over
FrameDue == ordersStarted > 0 /\ running /\ order.present /\ ceilSec(order.deadline - now) <= 0

\* lines 1096-1141, loop: the animation frame at which the time of the order
\* is over ends the game when a required count is left and calls newOrder
\* otherwise; the frames stop when the game has ended
Loop ==
    /\ FrameDue
    /\ IF \E k \in DOMAIN order.items : order.items[k] > 0
         THEN /\ running' = FALSE
              /\ UNCHANGED <<order, ordersStarted>>
       ELSE /\ ordersStarted < MaxOrders
            /\ \E d \in OrderDraws(level) : order' = newOrder(d[1], d[2], level, now)
            /\ ordersStarted' = ordersStarted + 1
            /\ UNCHANGED running
    /\ UNCHANGED <<orderTimers, ordersDone, level, lastChop, chopping, chopTimer,
                   gamePlayerAddress, mounted, powerUntil, gameLog>>
    /\ UNCHANGED now
    /\ UNCHANGED serviceVars
    /\ UNCHANGED endpointVars
    /\ UNCHANGED <<signingVars, sessionVars, clientVars, managerVars>>

\* lines 1435-1467: the button of the game-over overlay, which endGame shows
\* and this handler hides.  The order is dropped and the game runs again with
\* newOrder and a first animation frame; the level, the orders done, the
\* scheduled timeouts and the knife power stay as they are
Restart ==
    /\ mounted
    /\ ~running
    /\ ordersStarted < MaxOrders
    /\ running' = TRUE
    /\ \E d \in OrderDraws(level) : order' = newOrder(d[1], d[2], level, now)
    /\ ordersStarted' = ordersStarted + 1
    /\ UNCHANGED <<orderTimers, ordersDone, level, lastChop, chopping, chopTimer,
                   gamePlayerAddress, mounted, powerUntil, gameLog>>
    /\ UNCHANGED now
    /\ UNCHANGED serviceVars
    /\ UNCHANGED endpointVars
    /\ UNCHANGED <<signingVars, sessionVars, clientVars, managerVars>>

\* the times at which a newOrder timeout or the batching timer of the queue
\* is due, and the deadline at which the animation frame acts
GameDeadlines ==
    (IF orderTimers # <<>> THEN {orderTimers[1]} ELSE {})
       \cup (IF batchDue >= 0 THEN {batchDue} ELSE {})
       \cup (IF ordersStarted > 0 /\ running /\ order.present THEN {order.deadline} ELSE {})

\* time passes in the mounted game, up to the next of these at most, only when
\* what was due has run, and not beyond MaxGameTime
GameTick ==
    /\ ticks < MaxGameTicks
    /\ mounted
    /\ \A t \in GameDeadlines : t > now
    /\ ~(chopping /\ now >= chopTimer)
    /\ \E d \in GameSteps :
         now' = IF \E t \in GameDeadlines : t < now + d
                  THEN CHOOSE t \in GameDeadlines : \A u \in GameDeadlines : t <= u
                ELSE now + d
    /\ now' <= MaxGameTime
    /\ ticks' = ticks + 1
    /\ UNCHANGED <<usedTemporalKeys, usedPayloadKeys, usedIdentityKeys, usedNonces,
                   otherUsed, bursts, calls, lastCall, everHigh, everAccepted>>
    /\ UNCHANGED endpointVars
    /\ UNCHANGED sideVars

\* the game: the mount, orders, chops and their timeout, the timeout that
\* starts the next order, the animation frame, the restart after a game over,
\* the timers of the queue and the results of its submissions, the clock
NextGame ==
    \/ MountGame
    \/ StartGame
    \/ \E item \in BeltItems : \E hp \in 1..item[2] : Chop(item[1], hp)
    \/ ChopTimeout
    \/ NewOrderTimeout
    \/ Loop
    \/ Restart
    \/ FlushBatch
    \/ ProcessQueue
    \/ SubmitResolves
    \/ GameTick

SpecGame == Init /\ [][NextGame]_vars

\* what the game enqueues while a batch fills: two players, unequal amounts
BatchPayloads ==
    { [playerAddress |-> "0xA", scoreAmount |-> 100, transactionAmount |-> 1,
       throws |-> {}],
      [playerAddress |-> "0xA", scoreAmount |-> 250, transactionAmount |-> 2,
       throws |-> {}],
      [playerAddress |-> "0xB", scoreAmount |-> 100, transactionAmount |-> 1,
       throws |-> {}] }
MaxBatchEnqueues == 5
MaxBatchTicks == 2
EnqueueBatch == EnqueueWith(BatchPayloads, MaxBatchEnqueues)

BatchTick == ticks < MaxBatchTicks /\ ClientTick

\* batching alone: enqueue, the batching timer and the clock
NextBatch ==
    \/ EnqueueBatch
    \/ FlushBatch
    \/ BatchTick

SpecBatch == Init /\ [][NextBatch]_vars

\* the invocation of the handler that serves the awaited POST, if it has arrived
Serving(i) == req[i].pc # "idle" /\ req[i].sub = fetch.sub

\* the awaited POST reaches the endpoint
ArriveFetch(i) ==
    /\ fetch.active
    /\ \A j \in 1..MaxRequests : ~Serving(j)
    /\ ArriveWith(i, {fetch.sub})

\* lines 84-87: the response of the endpoint reaches the client
SubmitReturns ==
    /\ \E i \in 1..MaxRequests :
         /\ Serving(i)
         /\ req[i].pc = "done"
         /\ \E statusText \in StatusTexts(req[i].response.status) :
              Settle(submitPlayerScore(req[i].response, statusText))
    /\ UNCHANGED endpointVars

\* lines 88-97: fetch rejects (the connection drops before the request or the
\* response got through); the endpoint goes on with what it has received
SubmitLost ==
    /\ Settle(SubmitError("Failed to fetch"))
    /\ UNCHANGED endpointVars

\* the game enqueues one score event
EnqueueOnce == enqueued = 0 /\ Enqueue
\* clock advances in front of the endpoint
MaxRetryTicks == 3
RetryTick == ticks < MaxRetryTicks /\ ClientTick

\* the queue in front of the endpoint: one score event, the two timers of the
\* queue, the handler steps of the POSTs it sends, their responses and the clock
NextRetry ==
    \/ EnqueueOnce
    \/ FlushBatch
    \/ ProcessQueue
    \/ \E i \in 1..MaxRequests : ArriveFetch(i)
    \/ \E i \in 1..MaxRequests : Validate(i)
    \/ \E i \in 1..MaxRequests : Signed(i)
    \/ \E i \in 1..MaxRequests : WriteSucceeds(i)
    \/ \E i \in 1..MaxRequests : WriteFails(i)
    \/ SubmitReturns
    \/ SubmitLost
    \/ RetryTick

SpecRetry == Init /\ [][NextRetry]_vars

\* the 3-key validator under direct calls, the cleanup timer and the clock
NextKeys ==
    \/ ValidateKeysCall
    \/ CleanupOldKeys
    \/ BackgroundTraffic
    \/ Tick

SpecKeys == Init /\ [][NextKeys]_vars

\* the client-request (nonce) validator under direct calls, the cleanup timer
\* and the clock
NextNonce ==
    \/ ValidateClientRequestCall
    \/ CleanupOldKeys
    \/ BackgroundTraffic
    \/ Tick

SpecNonce == Init /\ [][NextNonce]_vars

\* the validation service under direct calls of both validators, the cleanup
\* timer and the clock
NextService ==
    \/ ValidateKeysCall
    \/ ValidateClientRequestCall
    \/ CleanupOldKeys
    \/ BackgroundTraffic
    \/ Tick

SpecService == Init /\ [][NextService]_vars

\* the challenge issuer and the challenge check under direct calls and the clock
NextChallenge ==
    \/ GenerateNonceChallengeCall
    \/ ValidateNonceWithChallengeCall
    \/ TickBy(ChallengeSteps)

SpecChallenge == Init /\ [][NextChallenge]_vars

\* ================================================================ claims
SamePayload(p, q) ==
    /\ p.playerAddress = q.playerAddress
    /\ p.scoreAmount = q.scoreAmount
    /\ p.transactionAmount = q.transactionAmount

KeyAge == Abs(lastCall.request.timestamp - lastCall.keyTimestamp)

\* the invocations that got past key validation and are awaiting the signature or
\* the ledger write
InFlightAccepted == {i \in 1..MaxRequests : req[i].pc \in {"signing", "writing"}}
\* ledger writes made for a key triple
WritesFor(keys) == {k \in 1..Len(ledger) : ledger[k].validationKeys = keys}
RateLimitErrors == {"Rate limit exceeded: Too many requests from this IP",
                    "Rate limit exceeded: Too many requests for this player"}

\* C1 (as claimed): in every execution of the submit endpoint, under any
\* interleaving of requests and periodic cleanups, updatePlayerData is executed at
\* most once per (identity, nonce) pair and at most once per key triple that
\* validated HIGH: no two ledger writes share their dedup pair or their triple.
C1_AtMostOnceCommit ==
    \A a, b \in 1..Len(ledger) :
        a # b => /\ <<ledger[a].player, ledger[a].nonce>> # <<ledger[b].player, ledger[b].nonce>>
                 /\ ledger[a].validationKeys # ledger[b].validationKeys

\* C2 (as claimed): when the body of a successful submission is submitted again
\* within the dedup window and is not turned away by the rate limiter, the second
\* response is HTTP 200 flagged duplicate with the first one's receipt, and the
\* ledger holds exactly one write for it.
C2_DuplicateSameReceipt ==
    \A i, j \in 1..MaxRequests :
        (/\ i < j
         /\ req[i].pc = "done" /\ req[i].response.success
         /\ req[j].pc = "done"
         /\ req[j].sub = req[i].sub
         /\ req[j].at - req[i].at <= REQUEST_DEDUP_WINDOW
         /\ req[j].response.error \notin RateLimitErrors)
        => /\ req[j].response.status = 200
           /\ req[j].response.duplicate
           /\ req[j].response.transactionHash = req[i].response.transactionHash
           /\ Cardinality(WritesFor(req[i].sub.validationKeys)) = 1

\* C4 (as claimed): check-unused and mark-used are one atomic step, so of two
\* requests handled concurrently with the same key triple only one is accepted:
\* two invocations carrying the same triple are never both past key validation
\* while both are still in flight.
C4_ConcurrentExactlyOne ==
    \A i, j \in InFlightAccepted :
        i # j => req[i].sub.validationKeys # req[j].sub.validationKeys

\* C5 (as claimed): no ledger write occurs for a submission unless the nonce
\* validator has verified the submission's clientNonce earlier in the handling of
\* the same request.
C5_NonceValidatedBeforeCommit ==
    \A k \in 1..Len(ledger) :
        LET layers == req[ledger[k].invocation].layers
        IN  \E a, b \in 1..Len(layers) :
               /\ a < b
               /\ layers[a] \in {"validateClientRequest", "validateNonceWithChallenge"}
               /\ layers[b] = "writeContract"

\* C3 (as claimed): once validateClientRequest has accepted a client nonce, every
\* later validateClientRequest call carrying that nonce is rejected as already
\* used, whatever ran in between (cleanupOldKeys included).
C3_NonceAcceptedOnce ==
    (lastCall.op = "validateClientRequest" /\ lastCall.replay)
        => (~lastCall.valid
            /\ \E i \in 1..Len(lastCall.errors) :
                   lastCall.errors[i] = "Nonce has already been used")

\* C6 (as claimed): once validateKeys has returned HIGH for a triple, every later
\* validateKeys call presenting one of its three key values returns valid = false,
\* whatever ran in between (cleanupOldKeys included).
C6_KeySingleUse ==
    (lastCall.op = "validateKeys" /\ lastCall.replay) => ~lastCall.valid

\* C7: key marking is all-or-nothing.  A validateKeys call that returns HIGH
\* inserts all three of its signed key strings (none was in its used-set before,
\* all three are after); any other call leaves the used-sets as they were.  A call
\* never inserts one or two keys of its triple.
C7_AllOrNothing ==
    lastCall.op = "validateKeys" =>
        /\ lastCall.valid <=> lastCall.securityLevel = "HIGH"
        /\ lastCall.securityLevel = "HIGH" =>
               (lastCall.markedBefore = 0 /\ lastCall.marked = 3)
        /\ lastCall.securityLevel # "HIGH" =>
               (~lastCall.setsChanged /\ lastCall.marked = lastCall.markedBefore)
        /\ lastCall.marked - lastCall.markedBefore \in {0, 3}

\* C7 witness: a call returned HIGH and its three keys are now marked
C7_Witness ==
    /\ lastCall.op = "validateKeys"
    /\ lastCall.securityLevel = "HIGH"
    /\ lastCall.markedBefore = 0
    /\ lastCall.marked = 3

\* C8 (as claimed): the triple issued by generateSecureValidationKeys for
\* (identity, score, txCount, timestamp, clientNonce), first presented to
\* validateKeys with the same identity, score and txCount within the freshness
\* window, validates with securityLevel HIGH.
C8_IssueValidateRoundTrip ==
    (/\ lastCall.op = "validateKeys"
     /\ lastCall.kind = "secure"
     /\ SamePayload(lastCall.for, lastCall.request)
     /\ KeyAge <= KEY_TOLERANCE_MS
     /\ lastCall.markedBefore = 0
     /\ ~lastCall.replay)
        => lastCall.securityLevel = "HIGH"

\* C9: binding.  A triple built for (identity, score, txCount) validates HIGH only
\* against a request with the same identity, score and txCount.
C9_Binding ==
    (lastCall.op = "validateKeys" /\ lastCall.securityLevel = "HIGH")
        => SamePayload(lastCall.for, lastCall.request)

\* C9 witness: a fresh, unused triple built by the client helper was presented
\* with another score; its signatures passed and the payload key was refused
C9_Witness ==
    /\ lastCall.op = "validateKeys"
    /\ lastCall.kind = "client"
    /\ lastCall.for.scoreAmount # lastCall.request.scoreAmount
    /\ lastCall.errors = <<"none", "Score amount mismatch in payload key", "none">>
    /\ lastCall.securityLevel = "MEDIUM"

\* C10: freshness.  A triple whose embedded timestamp is more than 120 s from the
\* request timestamp is rejected by validateKeys (its temporal key fails); one at
\* most 120 s away gets no freshness error.
C10_Freshness ==
    lastCall.op = "validateKeys" =>
        /\ KeyAge > 120000 =>
               (/\ ~lastCall.valid
                /\ lastCall.errors[1] \in {"Temporal key expired or invalid timestamp",
                                           "Temporal key already used"})
        /\ KeyAge <= 120000 =>
               (/\ lastCall.errors[1] # "Temporal key expired or invalid timestamp"
                /\ lastCall.errors[3] # "Identity key timestamp too old")
        /\ (KeyAge <= 120000 /\ lastCall.kind = "client"
            /\ SamePayload(lastCall.for, lastCall.request) /\ lastCall.markedBefore = 0)
               => lastCall.valid

\* C10 witness: a triple 121 s old was rejected as expired, after the same triple
\* had been accepted HIGH when it was fresh enough
C10_Witness ==
    /\ lastCall.op = "validateKeys"
    /\ KeyAge = 121000
    /\ lastCall.errors[1] = "Temporal key expired or invalid timestamp"
    /\ everHigh # {}

\* the keys of the last validateKeys call that failed: one errors entry each
FailedKeys == {i \in 1..3 : lastCall.errors[i] # "none"}

\* C11: validateKeys reports HIGH iff all three keys pass, MEDIUM iff exactly two,
\* LOW iff exactly one, FAILED iff none; valid is true iff the level is HIGH; the
\* errors list has one entry per failed key.
C11_SecurityLevel ==
    lastCall.op = "validateKeys" =>
        /\ lastCall.securityLevel = "HIGH" <=> Cardinality(FailedKeys) = 0
        /\ lastCall.securityLevel = "MEDIUM" <=> Cardinality(FailedKeys) = 1
        /\ lastCall.securityLevel = "LOW" <=> Cardinality(FailedKeys) = 2
        /\ lastCall.securityLevel = "FAILED" <=> Cardinality(FailedKeys) = 3
        /\ lastCall.valid <=> lastCall.securityLevel = "HIGH"

\* C11 witness: after a HIGH call, a call in which exactly two keys passed
C11_Witness ==
    /\ lastCall.op = "validateKeys"
    /\ lastCall.securityLevel = "MEDIUM"
    /\ Cardinality(FailedKeys) = 1
    /\ ~lastCall.valid
    /\ everHigh # {}

\* invocations that end in this step
Finishing(i) == req[i].pc # "done" /\ req'[i].pc = "done"

\* C12: the abuse counters advance only after a successful ledger write.  A step
\* in which a submission is rejected, or its ledger write fails, leaves
\* hourlyLimits and scoreTracking as they were; an entry is added or raised only
\* in the step that appends the write to the ledger.
C12_CountersOnlyOnCommit ==
    [][ /\ \A i \in 1..MaxRequests :
              (Finishing(i) /\ ~req'[i].response.success)
                  => (hourlyLimits' = hourlyLimits /\ scoreTracking' = scoreTracking)
        /\ (~(hourlyLimits' \subseteq hourlyLimits) \/ ~(scoreTracking' \subseteq scoreTracking))
              => Len(ledger') = Len(ledger) + 1 ]_vars

\* C12 witness: after a committed submission of an identity, another submission of
\* that identity got past validation and its ledger write failed; the counters
\* still show the one commit
C12_Witness ==
    \E i, j \in 1..MaxRequests :
        /\ req[i].pc = "done" /\ req[i].response.success
        /\ req[j].pc = "done" /\ req[j].response.status = 500
        /\ req[j].sub.playerAddress = req[i].sub.playerAddress
        /\ Len(ledger) = 1
        /\ \E e \in scoreTracking : e.key = req[i].sub.playerAddress /\ e.requests = 1

\* the hourly sums recorded for a player in the bucket of time t
RecordedHour(player, t) ==
    IF Has(hourlyLimits, <<player, t \div ONE_HOUR_MS>>)
      THEN Get(hourlyLimits, <<player, t \div ONE_HOUR_MS>>)
      ELSE NoHourly
\* invocation i leaves the body checks in this step
Deciding(i) == req[i].pc = "parsing" /\ req'[i].pc # "parsing"

\* C13: hourly ceiling decision.  A submission that got past the per-player rate
\* limit is answered 429 "Hourly score limit exceeded" exactly when the recorded
\* hourly score plus the requested score exceeds 30,000 and, when it does not,
\* 429 "Hourly transaction limit exceeded" exactly when the recorded transaction
\* sum plus the requested count exceeds 120.
C13_HourlyDecision ==
    [][ \A i \in 1..MaxRequests :
          (Deciding(i) /\ req'[i].response.error
                            # "Rate limit exceeded: Too many requests for this player")
          => LET rec == RecordedHour(req[i].sub.playerAddress, now)
                 scoreOver == rec.score + req[i].sub.scoreAmount > 30000
                 txOver == rec.transactions + req[i].sub.transactionAmount > 120
                 resp == req'[i].response
             IN  /\ (resp.status = 429 /\ resp.error = "Hourly score limit exceeded")
                       <=> scoreOver
                 /\ (resp.status = 429 /\ resp.error = "Hourly transaction limit exceeded")
                       <=> (~scoreOver /\ txOver) ]_vars

\* C13 witness: with 29,900 points recorded, a request for 200 was rejected by the
\* score ceiling and a request for 100 passed the tier and was committed
C13_Witness ==
    \E i, j \in 1..MaxRequests :
        /\ req[i].sub.scoreAmount = 200
        /\ req[i].response.status = 429
        /\ req[i].response.error = "Hourly score limit exceeded"
        /\ req[j].sub.scoreAmount = 100
        /\ req[j].hourlyData.score = 29900
        /\ req[j].response.success
        /\ \E e \in hourlyLimits : e.score = 30000

\* the ledger writes of the player of write k in the 60 minutes that end with it
HourBefore(k) ==
    {m \in 1..Len(ledger) : /\ ledger[m].player = ledger[k].player
                            /\ ledger[m].at <= ledger[k].at
                            /\ ledger[k].at - ledger[m].at < ONE_HOUR_MS}
\* every submission so far was handled to completion before the next arrived
\* (the history, followed by at most one invocation)
HandledSequentially == \A i \in 2..MaxRequests : req[i].pc = "idle"

\* C14 (as claimed): for sequentially handled submissions of one identity, the
\* score committed to the ledger within any 60-minute interval never exceeds
\* 30,000 and the transaction count never exceeds 120.  The ledger only grows,
\* so the 60 minutes that end with the latest write are examined in every state.
C14_RollingHour ==
    (HandledSequentially /\ ledger /= <<>>) =>
        /\ ScoreOf(ledger, HourBefore(Len(ledger))) <= 30000
        /\ TransactionsOf(ledger, HourBefore(Len(ledger))) <= 120

\* the ledger writes of the player of write k in the clock hour of write k
SameHour(k) ==
    {m \in 1..Len(ledger) : /\ ledger[m].player = ledger[k].player
                            /\ ledger[m].at \div ONE_HOUR_MS = ledger[k].at \div ONE_HOUR_MS}

\* C15 (as claimed): also when several submissions of one identity are in
\* progress at once, the score committed to the ledger for the identity within
\* the hour never exceeds 30,000.  The hour is the clock hour of the latest
\* write, which is the one the handler counts in.
C15_CeilingUnderConcurrency ==
    ledger /= <<>> => ScoreOf(ledger, SameHour(Len(ledger))) <= 30000

\* C16 (as claimed): a submission that arrives less than 5 seconds after the
\* identity's previous accepted submission is rejected.  Stated on the ledger:
\* a write of an invocation that arrived after an earlier write of the same
\* player was committed lies at least 5 seconds after that write.
C16_MinInterval ==
    \A k, m \in 1..Len(ledger) :
        (/\ ledger[k].invocation \in 1..MaxRequests
         /\ ledger[m].player = ledger[k].player
         /\ ledger[m].at < req[ledger[k].invocation].at)
        => ledger[k].at - ledger[m].at >= MIN_REQUEST_INTERVAL_MS

\* the behaviour record of a player, as line 243 reads it at time t
RecordedBehavior(player, t) ==
    IF Has(scoreTracking, player) THEN Get(scoreTracking, player)
    ELSE [NoBehavior EXCEPT !.firstRequest = t]
\* the session average of a record at time t is above 3,000 points per minute
AverageAbove(rec, t) ==
    /\ t - rec.firstRequest > 0
    /\ rec.totalScore * 20 > t - rec.firstRequest

\* C17 (as claimed): the average ceiling is enforced once 5 or more accepted
\* requests are recorded: with at least 5 recorded requests and a session
\* average above 3,000 points per minute the submission is rejected with 429,
\* and with fewer than 5 it is never rejected by this tier.
C17_AverageFromFive ==
    [][ \A i \in 1..MaxRequests :
          Deciding(i)
          => LET rec == RecordedBehavior(req[i].sub.playerAddress, now)
                 resp == req'[i].response
             IN  /\ (rec.requests >= 5 /\ AverageAbove(rec, now)) => resp.status = 429
                 /\ rec.requests < 5
                      => resp.error # "Suspicious scoring pattern detected" ]_vars

\* C17 (amended): the average ceiling is enforced once more than 5 accepted
\* requests are recorded: with at least 6 recorded requests and a session
\* average above 3,000 points per minute the submission is rejected with 429,
\* and with 5 or fewer it is never rejected by this tier.
C17_AverageFromSix ==
    [][ \A i \in 1..MaxRequests :
          Deciding(i)
          => LET rec == RecordedBehavior(req[i].sub.playerAddress, now)
                 resp == req'[i].response
             IN  /\ (rec.requests >= 6 /\ AverageAbove(rec, now)) => resp.status = 429
                 /\ rec.requests <= 5
                      => resp.error # "Suspicious scoring pattern detected" ]_vars

\* C17 witness: the sixth request of a session averaging above 3,000 points per
\* minute was committed with 5 requests recorded, and the seventh was rejected
\* by the average tier with 6 recorded
C17_Witness ==
    \E i, j \in 1..MaxRequests :
        /\ req[i].response.success
        /\ req[i].behaviorData.requests = 5
        /\ AverageAbove(req[i].behaviorData, req[i].at)
        /\ req[j].pc = "done"
        /\ req[j].response.status = 429
        /\ req[j].response.error = "Suspicious scoring pattern detected"
        /\ \E e \in scoreTracking : e.key = req[j].sub.playerAddress /\ e.requests = 6

\* invocation i reserved its dedup entry (line 431) and has finished
FinishedAfterReserve(i) ==
    /\ req[i].pc = "done"
    /\ \E x \in 1..Len(req[i].layers) : req[i].layers[x] = "writeContract"

\* C18 (as claimed): a dedup entry never stays in-flight after its request has
\* finished: once an invocation that reserved its entry is done, whether the
\* ledger write succeeded or failed, the entry is no longer marked as processing.
C18_NoInFlightAfterFinish ==
    \A i \in 1..MaxRequests :
        FinishedAfterReserve(i)
        => \A e \in processedRequests :
              e.key = <<req[i].sub.playerAddress, req[i].signedNonce>> => ~e.processing

\* invocation i has made the dedup lookup of lines 419-421
PastLookup(i) ==
    \E x \in 1..Len(req[i].layers) : req[i].layers[x] = "processedRequests"

\* C19 (as claimed): of two submissions with the same fingerprint handled
\* concurrently, one reserves the entry and proceeds to the ledger write and the
\* other gets the existing entry back: while one invocation holds the in-flight
\* placeholder, any other invocation of the same submission that has made the
\* lookup was answered from the stored entry and did not go on to the write.
C19_LookupOrReserve ==
    \A i, j \in 1..MaxRequests :
        (/\ i # j
         /\ req[i].sub = req[j].sub
         /\ req[i].pc = "writing"
         /\ PastLookup(j))
        => /\ req[j].pc = "done"
           /\ req[j].response.duplicate
           /\ \A x \in 1..Len(req[j].layers) : req[j].layers[x] # "writeContract"

\* age of the issued challenge at the last check, counted as the check counts
\* it: from the start of the second written into the challenge
ChallengeAge == lastCall.request.timestamp - (lastCall.keyTimestamp \div 1000) * 1000
\* the suffix passes the check of lines 167-171
SuffixUnpredictable(nonce) == nonce[1][1].n # 0 /\ nonce[1][1].n % 1000 # 0

\* the expiresAt that generateNonceChallenge returned with the challenge of
\* the last check
ChallengeExpiresAt ==
    generateNonceChallenge(lastCall.for.playerAddress, lastCall.keyTimestamp).expiresAt

\* C20: challenge round trip and identity binding.  A nonce made of the challenge
\* issued for identity X and a non-predictable suffix passes
\* validateNonceWithChallenge for X while the challenge is within its validity
\* window, which ends at the expiresAt returned with it and begins the clock
\* tolerance before its issue, and presented for any other identity it is
\* rejected with "Invalid challenge signature".
C20_ChallengeRoundTrip ==
    lastCall.op = "validateNonceWithChallenge"
    => LET x == lastCall.for.playerAddress
           y == lastCall.request.playerAddress
       IN  /\ (/\ y = x
               /\ lastCall.request.timestamp <= ChallengeExpiresAt
               /\ lastCall.request.timestamp >= lastCall.keyTimestamp - CHALLENGE_SKEW_MS
               /\ SuffixUnpredictable(lastCall.request.clientNonce))
              => lastCall.valid
           /\ y # x => /\ ~lastCall.valid
                       /\ lastCall.errors = <<"Invalid challenge signature">>

\* C21: challenge age window.  A nonce with a correct challenge signature gets
\* past the age check exactly when the age of its embedded timestamp lies
\* between -60 seconds and +300 seconds inclusive: older is "Challenge expired",
\* further ahead is "Challenge timestamp invalid".
C21_AgeWindow ==
    (/\ lastCall.op = "validateNonceWithChallenge"
     /\ lastCall.request.playerAddress = lastCall.for.playerAddress)
    => /\ lastCall.errors = <<"Challenge expired">> <=> ChallengeAge > 300000
       /\ lastCall.errors = <<"Challenge timestamp invalid">> <=> ChallengeAge < 0 - 60000
       /\ (ChallengeAge >= 0 - 60000 /\ ChallengeAge <= 300000)
            => lastCall.errors \in {<<>>, <<"Predictable nonce suffix">>}

\* C21 witness: the nonce of a challenge whose timestamp is exactly 60 seconds
\* ahead was presented for its identity and accepted
C21_Witness ==
    /\ lastCall.op = "validateNonceWithChallenge"
    /\ lastCall.request.playerAddress = lastCall.for.playerAddress
    /\ lastCall.valid
    /\ ChallengeAge = 0 - 60000

\* invocation i presented its token to the CSRF check of lines 311-318 and the
\* check accepted it
AcceptedByCSRF(i) ==
    /\ \E x \in 1..Len(req[i].layers) : req[i].layers[x] = "isValidCSRFFormat"
    /\ req[i].response.error # "Unauthorized: Invalid CSRF token format"

\* C23 (as claimed): the anti-forgery token is one-time use: once a token has
\* been accepted by the CSRF check of one request, a later request presenting
\* the same token is rejected by the CSRF check, so no two requests with the
\* same token are both accepted by it.
C23_CsrfOneTime ==
    \A i, j \in 1..MaxRequests :
        (i # j /\ req[i].sub.csrfToken = req[j].sub.csrfToken)
        => ~(AcceptedByCSRF(i) /\ AcceptedByCSRF(j))

\* the reasons validateClientRequest gives for a nonce
NonceReasons ==
    {"Invalid client nonce format", "Nonce has already been used"}
    \cup {"Nonce challenge validation failed: " \o e :
            e \in {"Invalid nonce format", "Invalid challenge signature", "Challenge expired",
                   "Challenge timestamp invalid", "Predictable nonce suffix"}}
NonceReasonOf(errors) == SelectSeq(errors, LAMBDA e : e \in NonceReasons)
\* the five checks of a client nonce, each on its own
FailsFormat(cr) == cr.clientNonce = EmptyStr \/ ~HasLength32(cr.clientNonce) \/ ~IsHex32(cr.clientNonce)
FailsSignature(cr) ==
    cr.clientNonce[1][1].d[1][2] # ChallengeSignature(cr.playerAddress, cr.clientNonce[1][1].d[1][1].n)
FailsAge(cr, t) ==
    LET age == t - cr.clientNonce[1][1].d[1][1].n * 1000
    IN  age > 300000 \/ age < 0 - 60000
FailsSuffix(cr) == ~SuffixUnpredictable(cr.clientNonce)
FailsUniqueness(cr) == cr.clientNonce \in usedNonces
\* the class of a reported reason
ReasonClass(errors) ==
    LET r == NonceReasonOf(errors)
    IN  IF r = <<>> THEN "none"
        ELSE IF r[1] \in {"Invalid client nonce format",
                          "Nonce challenge validation failed: Invalid nonce format"}
          THEN "format"
        ELSE IF r[1] = "Nonce challenge validation failed: Invalid challenge signature"
          THEN "signature"
        ELSE IF r[1] \in {"Nonce challenge validation failed: Challenge expired",
                          "Nonce challenge validation failed: Challenge timestamp invalid"}
          THEN "age"
        ELSE IF r[1] = "Nonce challenge validation failed: Predictable nonce suffix"
          THEN "suffix"
        ELSE "uniqueness"
\* this step is a call of validateClientRequest
ClientRequestStep == calls' = calls + 1 /\ lastCall'.op = "validateClientRequest"

\* C26 (as claimed): nonce verification applies its checks in the order format,
\* challenge signature, age, predictable suffix, uniqueness, and reports the
\* first check in this order that fails.
C26_NonceCheckOrder ==
    [][ ClientRequestStep
        => LET cr == lastCall'.request
           IN  /\ Len(NonceReasonOf(lastCall'.errors)) <= 1
               /\ ReasonClass(lastCall'.errors) =
                    IF FailsFormat(cr) THEN "format"
                    ELSE IF FailsSignature(cr) THEN "signature"
                    ELSE IF FailsAge(cr, now) THEN "age"
                    ELSE IF FailsSuffix(cr) THEN "suffix"
                    ELSE IF FailsUniqueness(cr) THEN "uniqueness"
                    ELSE "none" ]_vars

\* C26 (amended): the checks are applied in the order format, uniqueness,
\* challenge signature, age, predictable suffix, and the reason reported is that
\* of the first check in this order that fails.
C26_NonceCheckOrderUniquenessFirst ==
    [][ ClientRequestStep
        => LET cr == lastCall'.request
           IN  /\ Len(NonceReasonOf(lastCall'.errors)) <= 1
               /\ ReasonClass(lastCall'.errors) =
                    IF FailsFormat(cr) THEN "format"
                    ELSE IF FailsUniqueness(cr) THEN "uniqueness"
                    ELSE IF FailsSignature(cr) THEN "signature"
                    ELSE IF FailsAge(cr, now) THEN "age"
                    ELSE IF FailsSuffix(cr) THEN "suffix"
                    ELSE "none" ]_vars

\* C26 witness: a nonce that had been accepted was presented again after its
\* challenge had expired, and was reported as already used
C26_Witness ==
    /\ lastCall.op = "validateClientRequest"
    /\ lastCall.replay
    /\ lastCall.request.clientNonce \in usedNonces
    /\ now - lastCall.request.clientNonce[1][1].d[1][1].n * 1000 > 300000
    /\ NonceReasonOf(lastCall.errors) = <<"Nonce has already been used">>

\* the tiers of lines 211-271, each on its own, for a submission decided at time t
HourlyScoreViolated(sub, t) ==
    RecordedHour(sub.playerAddress, t).score + sub.scoreAmount > 30000
HourlyTransactionsViolated(sub, t) ==
    RecordedHour(sub.playerAddress, t).transactions + sub.transactionAmount > 120
IntervalViolated(sub, t) ==
    LET rec == RecordedBehavior(sub.playerAddress, t)
    IN  rec.requests > 0 /\ t - (rec.firstRequest + rec.requests * 1000) < 5000
AverageViolated(sub, t) ==
    LET rec == RecordedBehavior(sub.playerAddress, t)
    IN  rec.requests > 5 /\ AverageAbove(rec, t)
\* the 429 answer of the first violated tier after the per-minute limits
FirstViolatedTier(sub, t) ==
    IF HourlyScoreViolated(sub, t) THEN "Hourly score limit exceeded"
    ELSE IF HourlyTransactionsViolated(sub, t) THEN "Hourly transaction limit exceeded"
    ELSE IF IntervalViolated(sub, t)
      THEN "Request too frequent: Minimum 5 seconds between score submissions"
    ELSE IF AverageViolated(sub, t) THEN "Suspicious scoring pattern detected"
    ELSE ""
UsedSets == <<usedTemporalKeys, usedPayloadKeys, usedIdentityKeys, usedNonces>>

\* C27: order of the admission tiers.  The source limit answers before the body
\* is read; a submission that passed it and the identity limit is answered 429
\* by the first violated tier in the order hourly score, hourly transactions,
\* minimum interval, average score, and by none of them when none is violated;
\* a step that answers 429 leaves every used-set as it was.
C27_TierOrder ==
    [][ \A i \in 1..MaxRequests :
          /\ (Finishing(i) /\ req'[i].response.status = 429) => UNCHANGED UsedSets
          /\ (req[i].pc = "idle" /\ req'[i].pc = "done" /\ req'[i].response.status = 429)
                => req'[i].response.error = "Rate limit exceeded: Too many requests from this IP"
          /\ (Deciding(i) /\ req'[i].response.error
                               # "Rate limit exceeded: Too many requests for this player")
                => LET first == FirstViolatedTier(req[i].sub, now)
                   IN  IF first = "" THEN req'[i].response.status # 429
                       ELSE /\ req'[i].response.status = 429
                            /\ req'[i].response.error = first ]_vars

\* C27 witness: a submission that violated both the minimum interval and the
\* average ceiling was answered by the interval tier, and its keys were never
\* given to validateKeys
C27_Witness ==
    \E i \in 1..MaxRequests :
        /\ req[i].pc = "done"
        /\ req[i].response.status = 429
        /\ req[i].response.error
             = "Request too frequent: Minimum 5 seconds between score submissions"
        /\ req[i].sub.validationKeys.temporalKey # EmptyStr
        /\ AverageViolated(req[i].sub, req[i].at)
        /\ IntervalViolated(req[i].sub, req[i].at)
        /\ req[i].cryptoValidationLevel = "none"

\* the last call presented a triple the client helper built for the player of
\* the request, none of its keys used before
FreshClientTriple ==
    /\ lastCall.op = "validateKeys"
    /\ lastCall.kind = "client"
    /\ lastCall.for.playerAddress = lastCall.request.playerAddress
    /\ lastCall.markedBefore = 0

\* C28 (as claimed): the identity key binds the request timestamp: an identity
\* key whose embedded timestamp is not equal to the request timestamp fails
\* validation.
C28_IdentityTimestampExact ==
    (FreshClientTriple /\ lastCall.keyTimestamp # lastCall.request.timestamp)
    => lastCall.errors[3] # "none"

\* C28 (amended): the identity key has the 2-minute tolerance of the temporal
\* key: it fails with "Identity key timestamp too old" exactly when its embedded
\* timestamp is more than 120 s from the request timestamp, and passes otherwise.
C28_IdentityTimestampTolerance ==
    FreshClientTriple
    => /\ lastCall.errors[3] = "Identity key timestamp too old" <=> KeyAge > 120000
       /\ KeyAge <= 120000 => lastCall.errors[3] = "none"

\* C28 witness: an identity key stamped exactly 120 s before the request passed,
\* and the triple was accepted
C28_Witness ==
    /\ FreshClientTriple
    /\ KeyAge = 120000
    /\ lastCall.errors[3] = "none"
    /\ lastCall.valid

\* combined size of the four used-sets, other clients' entries included
UsedSize ==
    Cardinality(usedTemporalKeys) + Cardinality(usedPayloadKeys)
    + Cardinality(usedIdentityKeys) + Cardinality(usedNonces) + otherUsed
\* no entry leaves a used-set in this step
NothingRemoved ==
    /\ usedTemporalKeys \subseteq usedTemporalKeys'
    /\ usedPayloadKeys \subseteq usedPayloadKeys'
    /\ usedIdentityKeys \subseteq usedIdentityKeys'
    /\ usedNonces \subseteq usedNonces'
    /\ otherUsed <= otherUsed'
AllEmptied ==
    /\ usedTemporalKeys' = {}
    /\ usedPayloadKeys' = {}
    /\ usedIdentityKeys' = {}
    /\ usedNonces' = {}
    /\ otherUsed' = 0

\* C29: used nonces and keys are destroyed only by bulk eviction.  Every step
\* either removes no entry from any used-set or empties all four together, and
\* the latter happens only when their combined size was above 10,000.
C29_BulkEvictionOnly ==
    [][ \/ NothingRemoved
        \/ (UsedSize > 10000 /\ AllEmptied) ]_vars

\* C29 witness: after both validators had recorded entries and the sets had
\* grown past 10,000, the cleanup emptied all four
C29_Witness ==
    /\ everHigh # {}
    /\ everAccepted # {}
    /\ bursts = 1
    /\ UsedSize = 0

\* ------------------------------------------------------------------- C24
\* the verifySignature calls that returned isValid = true for a nonce
ValidVerifications(nonce) ==
    {i \in DOMAIN verifyLog : verifyLog[i].nonce = nonce /\ verifyLog[i].isValid}

\* C24: signature nonces prevent replay: for any nonce, verifySignature returns
\* isValid = true at most once while the signature is unexpired, whatever the
\* interleaving with the periodic nonce cleanup
C24_NonceReplay ==
    \A i \in DOMAIN verifyLog :
        (verifyLog[i].isValid /\ ~(verifyLog[i].at - verifyLog[i].timestamp > SIGNATURE_MAX_AGE))
            => Cardinality(ValidVerifications(verifyLog[i].nonce)) <= 1

\* ------------------------------------------------------------------- C25
\* the validateSessionToken calls that returned true for a token
AcceptedValidations(token) ==
    {i \in DOMAIN sessionLog : sessionLog[i].token = token /\ sessionLog[i].result}

\* the times at which a token is inside its validity window for a player
InsideWindow(token, playerAddress, t) ==
    \E i \in WindowOffsets(TIMESTAMP_WINDOW) :
        token = generateSessionToken(playerAddress, ((t - i) \div TOKEN_SLOT) * TOKEN_SLOT)

\* C25: session tokens are one-time use: validateSessionToken returns true at
\* most once for a given token value while that token is inside its validity
\* window, whatever the interleaving with other validations and with the
\* periodic clearing of the used-token set
C25_SessionTokenOneTime ==
    \A i \in DOMAIN sessionLog :
        (sessionLog[i].result
         /\ InsideWindow(sessionLog[i].token, sessionLog[i].playerAddress, sessionLog[i].at))
            => Cardinality(AcceptedValidations(sessionLog[i].token)) <= 1

\* ------------------------------------------------------------------- C30
\* the ids of the transactions on the queue, and the submissions of one
QueuedIds == {queue[k].id : k \in DOMAIN queue}
SubmitsOf(id) == {k \in Submits : clientLog[k].id = id}

\* C30: the queue calls submitPlayerScore at most maxAttempts (5) times for any
\* queued transaction; a transaction whose fifth attempt fails is removed from
\* the queue and its onFailure callback is invoked; a transaction whose attempt
\* succeeds is removed and never submitted again
C30_RetryBound ==
    \A k \in DOMAIN clientLog :
        LET event == clientLog[k]
        IN  /\ Cardinality(SubmitsOf(event.id)) <= MAX_ATTEMPTS
            /\ (event.ev = "failed" /\ event.attempts = MAX_ATTEMPTS)
                  => /\ event.id \notin QueuedIds
                     /\ k + 1 \in DOMAIN clientLog
                     /\ clientLog[k + 1].ev = "onFailure"
                     /\ clientLog[k + 1].id = event.id
            /\ event.ev = "succeeded"
                  => /\ event.id \notin QueuedIds
                     /\ \A j \in SubmitsOf(event.id) : j < k

\* a transaction failed five times and was given up, another one succeeded on
\* a retry, and the queue is empty
C30_Witness ==
    /\ \E k \in DOMAIN clientLog :
          clientLog[k].ev = "onFailure" /\ clientLog[k].attempts = MAX_ATTEMPTS
    /\ \E k \in DOMAIN clientLog :
          clientLog[k].ev = "onSuccess" /\ clientLog[k].attempts > 1
    /\ queue = <<>>

\* ------------------------------------------------------------------- C22
\* the ledger writes made for the submissions of one queued transaction
CommitsOf(id) ==
    {j \in DOMAIN ledger :
        \E k \in SubmitsOf(id) : clientLog[k].keys = ledger[j].validationKeys}

\* C22: when the client retries a score submission after a failed or lost
\* response, the ledger write is not executed a second time: one queued score
\* event results in at most one ledger commit
C22_RetryAtMostOneCommit ==
    \A k \in Submits : Cardinality(CommitsOf(clientLog[k].id)) <= 1

\* ------------------------------------------------------------------- C35
\* `${playerAddress}-${clientNonce}` and `${playerAddress}-${window}` of a request
RequestKeyOf(cr) == Dash(AddrStr(cr.playerAddress), cr.clientNonce)
WindowKeyOf(cr) == Dash(AddrStr(cr.playerAddress), FmtNum(cr.timestamp \div WINDOW_MS))

\* C35: validateClientRequest changes state only on acceptance.  A call that
\* returns valid = false leaves the four used-sets as they were; a call that
\* returns valid = true adds the request key, the 30-second window key and the
\* client nonce, each new to its set, and nothing else.
C35_StateOnlyOnAcceptance ==
    [][ ClientRequestStep
        => LET cr == lastCall'.request
           IN  /\ ~lastCall'.valid
                    => (UsedSets' = UsedSets /\ otherUsed' = otherUsed)
               /\ lastCall'.valid
                    => /\ RequestKeyOf(cr) \notin usedTemporalKeys
                       /\ WindowKeyOf(cr) \notin usedPayloadKeys
                       /\ cr.clientNonce \notin usedNonces
                       /\ usedTemporalKeys' = usedTemporalKeys \cup {RequestKeyOf(cr)}
                       /\ usedPayloadKeys' = usedPayloadKeys \cup {WindowKeyOf(cr)}
                       /\ usedNonces' = usedNonces \cup {cr.clientNonce}
                       /\ usedIdentityKeys' = usedIdentityKeys
                       /\ otherUsed' = otherUsed ]_vars

\* C35 witness: a request was accepted after another call, and its three
\* entries are recorded
C35_Witness ==
    /\ lastCall.op = "validateClientRequest"
    /\ lastCall.valid
    /\ calls = 2
    /\ RequestKeyOf(lastCall.request) \in usedTemporalKeys
    /\ WindowKeyOf(lastCall.request) \in usedPayloadKeys
    /\ lastCall.request.clientNonce \in usedNonces

\* ------------------------------------------------------------------- C36
\* the step in which invocation i is rejected with a 4xx status before the
\* ledger write is called
RejectedBeforeWrite(i) ==
    /\ req[i].pc = "parsing"
    /\ Finishing(i)
    /\ req'[i].response.status >= 400
    /\ req'[i].response.status <= 499

KeySets == <<usedTemporalKeys, usedPayloadKeys, usedIdentityKeys>>

\* C36 (as claimed): a submission that the endpoint rejects with a 4xx status
\* leaves the three used-key sets unchanged.
C36_RejectionLeavesKeySets ==
    [][ \A i \in 1..MaxRequests : RejectedBeforeWrite(i) => KeySets' = KeySets ]_vars

\* C36 (amended): a submission rejected by a rate-limit tier, for missing
\* validation keys or for a key failure leaves the three used-key sets
\* unchanged; a submission whose three keys validate and which is then rejected
\* by the CSRF, field, address or amount checks has had each of its three keys
\* added to its used-set.
C36_RejectionAfterKeysConsumes ==
    [][ \A i \in 1..MaxRequests :
          RejectedBeforeWrite(i)
            => IF req'[i].cryptoValidationLevel = "HIGH"
                 THEN /\ req'[i].response = FieldChecks(req[i].sub, now)
                      /\ Cardinality(usedTemporalKeys') = Cardinality(usedTemporalKeys) + 1
                      /\ Cardinality(usedPayloadKeys') = Cardinality(usedPayloadKeys) + 1
                      /\ Cardinality(usedIdentityKeys') = Cardinality(usedIdentityKeys) + 1
                      /\ NothingRemoved
                      /\ usedNonces' = usedNonces
               ELSE /\ KeySets' = KeySets
                    /\ req'[i].response.status \in {400, 401, 429}
                    /\ req'[i].response # FieldChecks(req[i].sub, now) ]_vars

\* C36 witness: a submission with a valid key triple was rejected by the CSRF
\* check, and its keys are in the used-sets
C36_Witness ==
    \E i \in 1..MaxRequests :
        /\ req[i].pc = "done"
        /\ req[i].sub.kind = "badcsrf"
        /\ req[i].response.status = 401
        /\ req[i].response.error = "Unauthorized: Invalid CSRF token format"
        /\ req[i].cryptoValidationLevel = "HIGH"
        /\ usedTemporalKeys # {}
        /\ ledger = <<>>

\* ------------------------------------------------------------------- C37
\* the hourly records this step deletes
DeletedHourly == {e \in hourlyLimits : ~Has(hourlyLimits', e.key)}

\* C37: the sweep never deletes the hourly record of the hour bucket that is
\* still current.  A record leaves hourlyLimits only in a step of the sweep and
\* only when its hour bucket has ended.
C37_SweepKeepsCurrentHour ==
    [][ \A e \in DeletedHourly :
          /\ e.key[2] < now \div ONE_HOUR_MS
          /\ now - e.timestamp > ONE_HOUR_MS
          /\ UNCHANGED <<now, req, ledger>> ]_vars

\* C37 witness: the record of a committed submission is gone and its hour has
\* ended, while exactly one hour after its creation it had not been deleted
C37_Witness ==
    /\ ledger # <<>>
    /\ ~Has(hourlyLimits, <<ledger[1].player, ledger[1].at \div ONE_HOUR_MS>>)
    /\ now \div ONE_HOUR_MS > ledger[1].at \div ONE_HOUR_MS
    /\ now - ledger[1].at <= ONE_HOUR_MS + 1000

\* ------------------------------------------------------------------- C32
\* the sum of an amount over the entries of one player
PlayerTotal(txs, x, F(_)) ==
    SumOver(SelectSeq(txs, LAMBDA tx : tx.playerAddress = x), F)
\* the entries this step appends to the queue
Flushed == SubSeq(queue', Len(queue) + 1, Len(queue'))
\* the batch this step flushes: the pending batch, with the transaction that
\* fills it when the step is an enqueue
FlushedBatches ==
    IF enqueued' = enqueued THEN {pendingBatch}
    ELSE {Append(pendingBatch, NewTransaction(p, now, enqueued + 1)) : p \in BatchPayloads}

\* C32: batch flushing preserves totals.  For every player the score sum and
\* the transaction sum over the entries a flush appends to the queue equal the
\* sums over that player's entries of the batch; an appended entry stands for
\* entries of one player only, no player gets two entries, and the pending
\* batch is empty afterwards.
C32_FlushPreservesTotals ==
    [][ Len(queue') > Len(queue)
        => /\ pendingBatch' = <<>>
           /\ \E batch \in FlushedBatches :
                /\ \A x \in Addresses :
                     /\ PlayerTotal(Flushed, x, TxScore) = PlayerTotal(batch, x, TxScore)
                     /\ PlayerTotal(Flushed, x, TxTransactions)
                          = PlayerTotal(batch, x, TxTransactions)
                     /\ Len(SelectSeq(Flushed, LAMBDA tx : tx.playerAddress = x)) <= 1
                /\ \A k \in DOMAIN Flushed :
                     \A c \in DOMAIN Flushed[k].callbacks :
                        \E j \in DOMAIN batch :
                           /\ batch[j].id = Flushed[k].callbacks[c]
                           /\ batch[j].playerAddress = Flushed[k].playerAddress
                /\ \A j \in DOMAIN batch :
                     \E k \in DOMAIN Flushed :
                        \E c \in DOMAIN Flushed[k].callbacks :
                           Flushed[k].callbacks[c] = batch[j].id ]_vars

\* C32 witness: a flush combined three entries of one player with unequal
\* amounts and kept the entry of the other player apart
C32_Witness ==
    /\ pendingBatch = <<>>
    /\ Len(queue) = 2
    /\ \E k \in DOMAIN queue :
          /\ queue[k].playerAddress = "0xA"
          /\ Len(queue[k].callbacks) = 3
          /\ queue[k].scoreAmount = 450
          /\ queue[k].transactionAmount = 4
    /\ \E k \in DOMAIN queue :
          queue[k].playerAddress = "0xB" /\ Len(queue[k].callbacks) = 1

\* ------------------------------------------------------------------- C38
\* the ids of the transactions handed to enqueue whose callbacks the log names
CallbackOwners == UNION {Range(clientLog[k].callbacks) : k \in DOMAIN clientLog}
\* the invocations of a terminal callback of the enqueued transaction id
TerminalCalls(id) ==
    {k \in DOMAIN clientLog :
        /\ clientLog[k].ev \in {"onSuccess", "onFailure"}
        /\ id \in Range(clientLog[k].callbacks)}

\* C38: for every transaction handed to enqueue, queued alone or as a member
\* of a combined transaction, onSuccess and onFailure together are invoked at
\* most once, whatever the callbacks do.
C38_OneTerminalCallback ==
    \A id \in CallbackOwners : Cardinality(TerminalCalls(id)) <= 1

\* ------------------------------------------------------------------- C39
\* the submitPlayerScore calls started so far
SubmitCount == Cardinality({k \in DOMAIN clientLog : clientLog[k].ev = "submit"})

\* C39: once destroy() has returned, the queue and the pending batch are empty,
\* neither timer of the queue is set, and no further submitPlayerScore call is
\* started, also when a processQueue call was suspended in a submission at the
\* time of the destroy.
C39_DestroyStopsQueue ==
    [][ /\ (~destroyed /\ destroyed') => /\ queue' = <<>>
                                          /\ pendingBatch' = <<>>
                                          /\ batchDue' = -1
                                          /\ ~processingTimer'
        /\ destroyed => SubmitCount' = SubmitCount ]_vars

\* the part of C39 that the code keeps: the state destroy() leaves behind, and
\* the processing interval, which no later call sets again
C39_DestroyedState ==
    [][ /\ (~destroyed /\ destroyed') => /\ queue' = <<>>
                                          /\ pendingBatch' = <<>>
                                          /\ batchDue' = -1
        /\ destroyed' => ~processingTimer' ]_vars

\* destroy() returned while a submission was awaited and a second transaction
\* of the snapshot was still to come
C39_Witness ==
    /\ destroyed
    /\ pass.isProcessing
    /\ pass.ready # <<>>
    /\ fetch.active

\* ------------------------------------------------------------------- C31
\* the n-th enqueued transaction is still waiting in the pending batch or in
\* the queue, alone or inside a combined transaction
Waiting(n) ==
    \E tx \in Range(pendingBatch) \cup Range(queue) :
       \E id \in Range(tx.callbacks) : id.rnd = n
\* onSuccess or onFailure of the n-th enqueued transaction has been invoked
Notified(n) ==
    \E k \in DOMAIN clientLog :
       /\ clientLog[k].ev \in {"onSuccess", "onFailure"}
       /\ \E id \in Range(clientLog[k].callbacks) : id.rnd = n

\* C31: queue termination.  With timers that keep firing and submissions that
\* return, with a success, an error or a priority conflict, every transaction
\* handed to enqueue eventually has left the pending batch and the queue and
\* has had onSuccess or onFailure invoked.
C31_QueueTermination ==
    \A n \in 1..MaxEnqueues :
       (enqueued >= n) ~> (~Waiting(n) /\ Notified(n))

\* ------------------------------------------------------------------- C33
\* the sums of the amounts added to the manager and of the amounts it has
\* passed to submitPlayerScore
ManagerTotal(ev, F(_)) ==
    SumOver(SelectSeq(managerLog, LAMBDA x : x.ev = ev), F)
EventScore(x) == x.score
EventTransactions(x) == x.transactions

\* destroy() of the manager has been called
ManagerDestroyed == ManagerCalls("destroy") > 0

\* C33: the manager delivers what it batches.  Whatever has been added with
\* addScore and addTransaction to a manager that is not destroyed is
\* eventually passed to submitPlayerScore with no further call of the user,
\* also when it was added while a submission was in progress.
C33_ManagerDelivers ==
    /\ \A n \in 0..MaxAdds :
          (ManagerTotal("add", EventScore) = n * 100)
             ~> (ManagerTotal("submit", EventScore) >= n * 100 \/ ManagerDestroyed)
    /\ \A v \in 0..MaxAdds :
          (ManagerTotal("add", EventTransactions) = v)
             ~> (ManagerTotal("submit", EventTransactions) >= v \/ ManagerDestroyed)

\* ------------------------------------------------------------------- C34
\* the events of one kind logged while order n was the current order
GameEvents(ev, n) == {k \in DOMAIN gameLog : gameLog[k].ev = ev /\ gameLog[k].order = n}
\* order n is complete: it is the current order with nothing left to chop, or
\* a later order has replaced it after its completion
Delivered(n) == GameEvents("bonus", n) # {}

\* C34: every completed order awards the delivery bonus once and enqueues one
\* ledger transaction: from the chop that completes it to the start of the
\* next order no further chop awards a bonus or enqueues a transaction.
C34_OneBonusPerOrder ==
    \A n \in 1..MaxOrders :
       /\ Cardinality(GameEvents("bonus", n)) <= 1
       /\ Cardinality(GameEvents("enqueue", n)) <= 1
       /\ (Delivered(n) /\ gamePlayerAddress # "")
             => Cardinality(GameEvents("enqueue", n)) = 1

====
